---- MODULE Spec2Model ----
(***************************************************************************)
(* A model of the request orchestration core of CLIProxyAPI: the durable   *)
(* daily request counter (internal/policy), the API key policy middleware  *)
(* (internal/api/middleware) and the execution conductor                   *)
(* (sdk/api/handlers).  Strings are sequences of one-character strings so  *)
(* that trimming, lower-casing, prefix tests and wildcard matching are     *)
(* computed the way the Go code computes them.                             *)
(***************************************************************************)
EXTENDS Integers, Sequences, FiniteSets, TLC

VARIABLES
    table,        \* api_model_daily_usage: normalised (api_key, model, day) -> row
    limiterOpen,  \* whether the limiter's *sql.DB handle is open
    clock,        \* time.Now(), in hours since the epoch (UTC)
    epoch,        \* how many times the store has been reopened
    dailyLimit,   \* the daily limit in force (what callers pass as limit)
    last,         \* the most recent Consume call and what it returned
    hist,         \* per triple: how many calls reached the statement
    refusedAt,    \* per triple: the epoch in which a call was first refused
    calls,        \* number of Consume calls made so far
    cpc,          \* concurrent callers of Consume: where each one is
    crow,         \* concurrent callers: the row the statement returned
    cres,         \* concurrent callers: what Consume returned
    cfg,          \* middleware: the configuration with its client policies
    deps,         \* middleware: the limiter and the cost reader it was built with
    costs,        \* billing store: cost in micro-USD persisted per day key
    resp,         \* middleware: the last request and what became of it
    byLimitKey,   \* per (day, limit key): requests that reached the limit step, and forwarded
    byModel,      \* per (day, requested model key with a limit): requests, and forwarded
    xReq,         \* non-streaming execution: the request, its policy, the registry
    xPc,          \* non-streaming execution: where ExecuteWithAuthManager is
    xCur,         \* non-streaming execution: providers and model of the next call
    xCalls,       \* non-streaming execution: the AuthManager.Execute calls made
    xResult,      \* non-streaming execution: what was returned
    sReq,         \* streaming execution: the request, its policy, the configuration
    sPc,          \* streaming execution: where ExecuteStreamWithAuthManager is
    sLoop,        \* streaming execution: the locals of the reader goroutine
    sCalls,       \* streaming execution: the AuthManager.ExecuteStream calls made
    sOut,         \* streaming execution: what went to dataChan and errChan
    ctxDone,      \* streaming execution: the request context is cancelled
    sSeen,        \* streaming execution: the chunks read from upstream
    rw,           \* response masquerade: the helper, its input and its result
    pAuths,       \* credential pool: what the executor answers for each credential
    pCooldown,    \* credential pool: the (credential, model) pairs cooling down
    pPc,          \* credential pool: whether a request is being executed
    pReq,         \* credential pool: the request being executed and its attempts
    pLog,         \* credential pool: the requests executed so far
    usage,        \* billing store: api_key_model_daily_usage, (api_key, model, day) -> row
    usageLog,     \* billing store: the AddUsage calls that were accepted
    uRes,         \* billing store: the last AddUsage call and its error
    savedPrices,  \* billing store: model_prices, model key -> price
    priceRes,     \* billing store: the last price operation and what it returned
    fe,           \* failover eligibility: an upstream error and the verdict on it
    san,          \* configuration: a list of client policies and what sanitising made of it
    ft,           \* configuration: a failover block, a requested model and the target resolved
    eb,           \* error envelope: a status, an error text and the body built from them
    cm,           \* cost arithmetic: a token count, a rate and the cost computed from them
    ka            \* keep-alive: the goroutine, its channels and the callers of stop

limVars == <<table, limiterOpen, clock, epoch, dailyLimit, last, hist, refusedAt, calls>>

concVars == <<cpc, crow, cres>>

mwVars == <<cfg, deps, costs, resp, byLimitKey, byModel>>

exVars == <<xReq, xPc, xCur, xCalls, xResult>>

stVars == <<sReq, sPc, sLoop, sCalls, sOut, ctxDone, sSeen>>

\* The variables of the specifications that stand apart from the request path
poolVars == <<pAuths, pCooldown, pPc, pReq, pLog>>

storeVars == <<usage, usageLog, uRes, savedPrices, priceRes>>

pureVars == <<san, ft, eb, cm, ka>>

sideVars == <<storeVars, fe, pureVars>>

auxVars == <<rw, poolVars, sideVars>>

\* What the sequential limiter actions leave alone
nonLimVars == <<concVars, mwVars, exVars, stVars, auxVars>>

\* What the concurrent callers leave alone, the table apart
nonConcVars == <<limiterOpen, clock, epoch, dailyLimit, last, hist, refusedAt, calls, mwVars, exVars, stVars, auxVars>>

vars == <<limVars, concVars, mwVars, exVars, stVars, auxVars>>

-----------------------------------------------------------------------------
(* Bounds of the model.                                                    *)

MaxLimit == 2
MaxRestarts == 1
MaxCostMicro == 1
NumCallers == 3

\* Enough calls on one row to pass the largest limit.
MaxCalls == MaxLimit + 1

-----------------------------------------------------------------------------
(* Strings.                                                                *)

upperChars == <<"A","B","C","D","E","F","G","H","I","J","K","L","M",
                "N","O","P","Q","R","S","T","U","V","W","X","Y","Z">>

lowerChars == <<"a","b","c","d","e","f","g","h","i","j","k","l","m",
                "n","o","p","q","r","s","t","u","v","w","x","y","z">>

ToLowerChar(c) ==
    IF \E i \in 1..Len(upperChars) : upperChars[i] = c
    THEN lowerChars[CHOOSE i \in 1..Len(upperChars) : upperChars[i] = c]
    ELSE c

\* strings.ToLower
ToLower(s) == [i \in 1..Len(s) |-> ToLowerChar(s[i])]

IsSpace(c) == c \in {" ", "\t", "\n", "\r"}

RECURSIVE TrimLeft(_)
TrimLeft(s) ==
    IF s # <<>> /\ IsSpace(Head(s)) THEN TrimLeft(Tail(s)) ELSE s

RECURSIVE TrimRight(_)
TrimRight(s) ==
    IF s # <<>> /\ IsSpace(s[Len(s)]) THEN TrimRight(SubSeq(s, 1, Len(s) - 1)) ELSE s

\* strings.TrimSpace
TrimSpace(s) == TrimRight(TrimLeft(s))

\* strings.HasPrefix
HasPrefix(s, p) == Len(p) <= Len(s) /\ SubSeq(s, 1, Len(p)) = p

\* strings.HasSuffix
HasSuffix(s, p) == Len(p) <= Len(s) /\ SubSeq(s, Len(s) - Len(p) + 1, Len(s)) = p

\* strings.TrimSuffix
TrimSuffix(s, p) == IF HasSuffix(s, p) THEN SubSeq(s, 1, Len(s) - Len(p)) ELSE s

\* s[n:] of Go, n counted from 0
From(s, n) == SubSeq(s, n + 1, Len(s))

\* strings.Index: the 0-based place of the first occurrence of p in s, or -1
Index(s, p) ==
    IF \E i \in 0..(Len(s) - Len(p)) : SubSeq(s, i + 1, i + Len(p)) = p
    THEN CHOOSE i \in 0..(Len(s) - Len(p)) :
            /\ SubSeq(s, i + 1, i + Len(p)) = p
            /\ \A j \in 0..(i - 1) : SubSeq(s, j + 1, j + Len(p)) # p
    ELSE -1

\* strings.LastIndex
LastIndex(s, p) ==
    IF \E i \in 0..(Len(s) - Len(p)) : SubSeq(s, i + 1, i + Len(p)) = p
    THEN CHOOSE i \in 0..(Len(s) - Len(p)) :
            /\ SubSeq(s, i + 1, i + Len(p)) = p
            /\ \A j \in (i + 1)..(Len(s) - Len(p)) : SubSeq(s, j + 1, j + Len(p)) # p
    ELSE -1

\* strings.Contains
Contains(s, p) == Index(s, p) >= 0

Min(a, b) == IF a < b THEN a ELSE b

-----------------------------------------------------------------------------
(* Time and the day key.                                                   *)

HoursPerDay == 24

\* chinaLocation: a fixed zone 8 hours east of UTC
chinaOffsetHours == 8

\* The clock starts one hour before midnight in UTC+8, so that one tick
\* crosses the day boundary.
StartClock == HoursPerDay - chinaOffsetHours - 1

\* The clock stops at the first hour of the next day in UTC+8.
EndClock == StartClock + 1

digitChars == <<"0","1","2","3","4","5","6","7","8","9">>

RECURSIVE FormatInt(_)
FormatInt(n) ==
    IF n < 10 THEN <<digitChars[n + 1]>>
    ELSE FormatInt(n \div 10) \o <<digitChars[(n % 10) + 1]>>

\* A day key taken in UTC
DayKeyChina_utc(now) == FormatInt(now \div HoursPerDay)

\* DayKeyChina: the calendar day of `now` in UTC+8, formatted.  The Go code
\* formats the date as YYYY-MM-DD; the model formats the day's number, which
\* names the same day.
DayKeyChina(now) == FormatInt((now + chinaOffsetHours) \div HoursPerDay)

-----------------------------------------------------------------------------
(* The durable request counter: SQLiteDailyLimiter.                        *)

NoRows == <<>>

\* CREATE TABLE IF NOT EXISTS api_model_daily_usage: an existing table and its
\* rows are kept as they are.
ensureSchema_recreate(rows) == NoRows

ensureSchema(rows) == rows

HasRow(rows, key) == key \in DOMAIN rows

RowCount(rows, key) == IF HasRow(rows, key) THEN rows[key].count ELSE 0

\* WHERE api_model_daily_usage.count < ?
UpsertWhere_le(count, limit) == count <= limit

UpsertWhere(count, limit) == count < limit

\* An upsert that forgets the day in its conflict target
PutRow_anyDay(rows, key, row) ==
    [k \in (DOMAIN rows) \cup {key} |->
        IF k.api_key = key.api_key /\ k.model = key.model THEN row ELSE rows[k]]

PutRow(rows, key, row) ==
    [k \in (DOMAIN rows) \cup {key} |-> IF k = key THEN row ELSE rows[k]]

\* INSERT ... VALUES (?, ?, ?, 1, ?) ON CONFLICT(api_key, model, day)
\* DO UPDATE SET count = count + 1, updated_at = excluded.updated_at
\* WHERE count < ? RETURNING count.   One statement: SQLite runs it atomically.
\* The result is the new table and the row the statement returns, if any.
ConsumeStmt_returnsOld(rows, key, nowUnix, limit) ==
    IF ~HasRow(rows, key)
    THEN [rows |-> PutRow(rows, key, [count |-> 1, updated_at |-> nowUnix]),
          returned |-> TRUE, count |-> 1]
    ELSE IF UpsertWhere(rows[key].count, limit)
    THEN [rows |-> PutRow(rows, key, [count |-> rows[key].count + 1, updated_at |-> nowUnix]),
          returned |-> TRUE, count |-> rows[key].count]
    ELSE [rows |-> rows, returned |-> FALSE, count |-> 0]

ConsumeStmt(rows, key, nowUnix, limit) ==
    IF ~HasRow(rows, key)
    THEN [rows |-> PutRow(rows, key, [count |-> 1, updated_at |-> nowUnix]),
          returned |-> TRUE, count |-> 1]
    ELSE IF UpsertWhere(rows[key].count, limit)
    THEN [rows |-> PutRow(rows, key, [count |-> rows[key].count + 1, updated_at |-> nowUnix]),
          returned |-> TRUE, count |-> rows[key].count + 1]
    ELSE [rows |-> rows, returned |-> FALSE, count |-> 0]

\* Model keys that are not lower-cased
ConsumeKey_modelAsGiven(apiKey, model, dayKey) ==
    [api_key |-> TrimSpace(apiKey),
     model |-> TrimSpace(model),
     day |-> TrimSpace(dayKey)]

\* The key Consume uses: apiKey and dayKey trimmed, model trimmed and lower-cased.
ConsumeKey(apiKey, model, dayKey) ==
    [api_key |-> TrimSpace(apiKey),
     model |-> ToLower(TrimSpace(model)),
     day |-> TrimSpace(dayKey)]

InvalidInputs(key) == key.api_key = <<>> \/ key.model = <<>> \/ key.day = <<>>

\* if limit <= 0 { return 0, false, nil }
LimitDisabled_negativeOnly(limit) == limit < 0

LimitDisabled(limit) == limit <= 0

\* row.Scan: sql.ErrNoRows means the WHERE clause refused the increment
ScanResult(stmt, limit) ==
    IF stmt.returned
    THEN [count |-> stmt.count, allowed |-> TRUE, err |-> "nil"]
    ELSE [count |-> limit, allowed |-> FALSE, err |-> "nil"]

\* Consume as a function of the table, the handle and the arguments: the new
\* table and (count, allowed, err).
Consume(rows, open, apiKey, model, dayKey, limit, nowUnix) ==
    LET key == ConsumeKey(apiKey, model, dayKey) IN
    IF InvalidInputs(key)
    THEN [rows |-> rows, count |-> 0, allowed |-> FALSE, err |-> "invalid inputs"]
    ELSE IF LimitDisabled(limit)
    THEN [rows |-> rows, count |-> 0, allowed |-> FALSE, err |-> "nil"]
    ELSE IF ~open
    THEN [rows |-> rows, count |-> 0, allowed |-> FALSE, err |-> "consume failed"]
    ELSE LET stmt == ConsumeStmt(rows, key, nowUnix, limit)
             res == ScanResult(stmt, limit)
         IN [rows |-> stmt.rows, count |-> res.count, allowed |-> res.allowed, err |-> res.err]

-----------------------------------------------------------------------------
(* Sequential use of the limiter: Consume, Close, NewSQLiteDailyLimiter.   *)

\* The (apiKey, model, dayKey) arguments callers pass: two spellings of one
\* row, the same key and model on the next day, a blank key, an empty model.
RawCalls ==
    { <<<<"k">>, <<"m">>, DayKeyChina(StartClock)>>,
      <<<<"k">>, <<"M", " ">>, DayKeyChina(StartClock)>>,
      <<<<"k">>, <<"m">>, <<" ">> \o DayKeyChina(EndClock)>>,
      <<<<" ">>, <<"m">>, DayKeyChina(StartClock)>>,
      <<<<"k">>, <<>>, DayKeyChina(StartClock)>> }

\* The limits a caller passes: the limit in force, or a disabled one.
DisabledLimits == {-1, 0}

NoCall == [seq |-> 0, key |-> <<>>, limit |-> 0, count |-> 0, allowed |-> FALSE,
           err |-> "nil", stmt |-> FALSE, epoch |-> 0]

CountOf(h, key) == IF key \in DOMAIN h THEN h[key] ELSE 0

\* Whether this call reaches the statement (and so counts as a call on the row)
ReachesStmt(open, apiKey, model, dayKey, limit) ==
    /\ ~InvalidInputs(ConsumeKey(apiKey, model, dayKey))
    /\ ~LimitDisabled(limit)
    /\ open

\* No concurrent caller exists in the sequential specification.
ConcIdle ==
    /\ cpc = <<>>
    /\ crow = <<>>
    /\ cres = <<>>

\* Nothing is going on apart from the request path.
PoolIdle ==
    /\ pAuths = <<>>
    /\ pCooldown = {}
    /\ pPc = "off"
    /\ pReq = <<>>
    /\ pLog = <<>>

PureIdle ==
    /\ san = <<>>
    /\ ft = <<>>
    /\ eb = <<>>
    /\ cm = <<>>
    /\ ka = <<>>

SideIdle ==
    /\ usage = <<>>
    /\ usageLog = <<>>
    /\ uRes = <<>>
    /\ savedPrices = <<>>
    /\ priceRes = <<>>
    /\ fe = <<>>
    /\ san = <<>>
    /\ ft = <<>>
    /\ eb = <<>>
    /\ cm = <<>>
    /\ ka = <<>>

AuxIdle ==
    /\ rw = <<>>
    /\ PoolIdle
    /\ SideIdle

\* No streaming request is being executed.
StreamIdle ==
    /\ sReq = <<>>
    /\ sPc = "idle"
    /\ sLoop = <<>>
    /\ sCalls = <<>>
    /\ sOut = <<>>
    /\ ctxDone = FALSE
    /\ sSeen = <<>>
    /\ AuxIdle

\* No request is being executed outside the conductor's specifications.
ExecIdle ==
    /\ xReq = <<>>
    /\ xPc = "idle"
    /\ xCur = <<>>
    /\ xCalls = <<>>
    /\ xResult = <<>>
    /\ StreamIdle

\* APIKeyPolicyMiddleware(getConfig, limiter, costReader) built with a limiter
\* and a cost reader that answers
DepsPresent == [limiter |-> "set", costReader |-> "set"]

\* No request goes through the middleware outside its own specification.
MWIdle ==
    /\ cfg = [nil |-> TRUE, policies |-> <<>>]
    /\ deps = DepsPresent
    /\ costs = <<>>
    /\ resp = <<>>
    /\ byLimitKey = <<>>
    /\ byModel = <<>>

LimInit ==
    /\ table = ensureSchema(NoRows)
    /\ limiterOpen = TRUE
    /\ clock = StartClock
    /\ epoch = 0
    /\ dailyLimit \in 1..MaxLimit
    /\ last = NoCall
    /\ hist = <<>>
    /\ refusedAt = <<>>
    /\ calls = 0
    /\ ConcIdle
    /\ MWIdle
    /\ ExecIdle

ConsumeCall(apiKey, model, dayKey, limit) ==
    LET key == ConsumeKey(apiKey, model, dayKey)
        r == Consume(table, limiterOpen, apiKey, model, dayKey, limit, clock)
        reached == ReachesStmt(limiterOpen, apiKey, model, dayKey, limit)
    IN
    /\ calls < MaxCalls
    /\ calls' = calls + 1
    /\ table' = r.rows
    /\ last' = [seq |-> calls + 1, key |-> key, limit |-> limit, count |-> r.count,
                allowed |-> r.allowed, err |-> r.err, stmt |-> reached, epoch |-> epoch]
    /\ hist' = IF reached
               THEN [k \in (DOMAIN hist) \cup {key} |->
                        IF k = key THEN CountOf(hist, key) + 1 ELSE hist[k]]
               ELSE hist
    /\ refusedAt' = IF reached /\ ~r.allowed /\ key \notin DOMAIN refusedAt
                    THEN [k \in (DOMAIN refusedAt) \cup {key} |->
                            IF k = key THEN epoch ELSE refusedAt[k]]
                    ELSE refusedAt
    /\ UNCHANGED <<limiterOpen, clock, epoch, dailyLimit>>
    /\ UNCHANGED nonLimVars

DoConsume ==
    \E c \in RawCalls, limit \in {dailyLimit} \cup DisabledLimits :
        ConsumeCall(c[1], c[2], c[3], limit)

\* (*SQLiteDailyLimiter).Close
Close ==
    /\ limiterOpen
    /\ limiterOpen' = FALSE
    /\ UNCHANGED <<table, clock, epoch, dailyLimit, last, hist, refusedAt, calls>>
    /\ UNCHANGED nonLimVars

\* NewSQLiteDailyLimiter on the same path: open, ping, ensureSchema
NewSQLiteDailyLimiter ==
    /\ ~limiterOpen
    /\ epoch < MaxRestarts
    /\ limiterOpen' = TRUE
    /\ table' = ensureSchema(table)
    /\ epoch' = epoch + 1
    /\ UNCHANGED <<clock, dailyLimit, last, hist, refusedAt, calls>>
    /\ UNCHANGED nonLimVars

Tick ==
    /\ clock < EndClock
    /\ clock' = clock + 1
    /\ UNCHANGED <<table, limiterOpen, epoch, dailyLimit, last, hist, refusedAt, calls>>
    /\ UNCHANGED nonLimVars

LimNext == DoConsume \/ Close \/ NewSQLiteDailyLimiter \/ Tick

SpecLimiter == LimInit /\ [][LimNext]_vars

\* C1: for a fixed limit L >= 1 and a row that did not exist at the start,
\* after N Consume calls on the row its count is min(N, L); the k-th call
\* returns allowed with count k when k <= L and is refused when k > L.
C1_CountIsMinOfCallsAndLimit ==
    /\ \A key \in DOMAIN table : key \in DOMAIN hist
    /\ \A key \in DOMAIN hist : RowCount(table, key) = Min(hist[key], dailyLimit)
    /\ last.stmt =>
        /\ last.err = "nil"
        /\ last.allowed <=> (hist[last.key] <= dailyLimit)
        /\ last.allowed => last.count = hist[last.key]

\* A call past the limit was refused, on a row that took more than one call.
C1_Witness ==
    /\ last.stmt
    /\ ~last.allowed
    /\ dailyLimit >= 2
    /\ hist[last.key] = dailyLimit + 1
    /\ RowCount(table, last.key) = dailyLimit

\* C5: closing and reopening the store leaves every row as it was, and a
\* Consume refused on a row before is refused on it afterwards (same limit).
C5_CounterSurvivesRestart ==
    [][ /\ (limiterOpen' # limiterOpen) => (table' = table)
        /\ (last'.seq # last.seq /\ last'.stmt /\ last'.key \in DOMAIN refusedAt)
              => ~last'.allowed ]_vars

\* A Consume refused before a restart was made again after it, and refused.
C5_Witness ==
    /\ last.stmt
    /\ ~last.allowed
    /\ last.key \in DOMAIN refusedAt
    /\ refusedAt[last.key] < last.epoch

\* C6: Consume with limit <= 0 returns (0, false) and changes no row.
C6_DisabledLimitTouchesNothing ==
    [][ (last'.seq # last.seq /\ last'.limit <= 0)
            => (last'.count = 0 /\ ~last'.allowed /\ table' = table) ]_vars

\* A disabled-limit call was made on an existing row, and on a missing one,
\* at a time later than the row's last update.
C6_Witness ==
    /\ last.seq > 0
    /\ last.limit <= 0
    /\ last.err = "nil"
    /\ last.count = 0
    /\ \E key \in DOMAIN table : table[key].updated_at < clock
    /\ ~HasRow(table, last.key)

-----------------------------------------------------------------------------
(* Concurrent callers of Consume on one row, with one limit.               *)

Callers == 1..NumCallers

TheAPIKey == <<"k">>

TheDay == DayKeyChina(StartClock)

\* Spellings of one model
SameModelSpellings == { <<"m">>, <<"M", " ">> }

ConcInit ==
    /\ table = ensureSchema(NoRows)
    /\ limiterOpen = TRUE
    /\ clock = StartClock
    /\ epoch = 0
    /\ dailyLimit \in 1..MaxLimit
    /\ last = NoCall
    /\ hist = <<>>
    /\ refusedAt = <<>>
    /\ calls = 0
    /\ cpc = [p \in Callers |-> "idle"]
    /\ crow = [p \in Callers |-> [key |-> <<>>, returned |-> FALSE, count |-> 0]]
    /\ cres = [p \in Callers |-> [count |-> 0, allowed |-> FALSE, err |-> "nil"]]
    /\ MWIdle
    /\ ExecIdle

\* Consume up to the statement: the nil checks, the normalisation of the
\* inputs, the limit check.
CEnter(p) ==
    /\ cpc[p] = "idle"
    /\ \E model \in SameModelSpellings :
        LET key == ConsumeKey(TheAPIKey, model, TheDay) IN
        /\ ~InvalidInputs(key)
        /\ ~LimitDisabled(dailyLimit)
        /\ crow' = [crow EXCEPT ![p] = [key |-> key, returned |-> FALSE, count |-> 0]]
    /\ cpc' = [cpc EXCEPT ![p] = "stmt"]
    /\ UNCHANGED <<table, cres>>
    /\ UNCHANGED nonConcVars

\* l.db.QueryRowContext(ctx, stmt, ...): the statement runs, atomically
CExec(p) ==
    /\ cpc[p] = "stmt"
    /\ LET stmt == ConsumeStmt(table, crow[p].key, clock, dailyLimit) IN
        /\ table' = stmt.rows
        /\ crow' = [crow EXCEPT ![p] = [key |-> crow[p].key, returned |-> stmt.returned,
                                        count |-> stmt.count]]
    /\ cpc' = [cpc EXCEPT ![p] = "scan"]
    /\ UNCHANGED cres
    /\ UNCHANGED nonConcVars

\* row.Scan(&count) and the return
CReturn(p) ==
    /\ cpc[p] = "scan"
    /\ cres' = [cres EXCEPT ![p] = ScanResult(crow[p], dailyLimit)]
    /\ cpc' = [cpc EXCEPT ![p] = "done"]
    /\ UNCHANGED <<table, crow>>
    /\ UNCHANGED nonConcVars

ConcNext == \E p \in Callers : CEnter(p) \/ CExec(p) \/ CReturn(p)

SpecConc == ConcInit /\ [][ConcNext]_vars

Done == {p \in DOMAIN cpc : cpc[p] = "done"}

Allowed == {p \in Done : cres[p].allowed}

\* C2: for any interleaving of concurrent Consume calls on one row with one
\* limit L, the count never passes L, no two allowed calls return the same
\* count, and once no call is in flight exactly min(N, L) of the N calls made
\* were allowed.
C2_ConsumeAtomic ==
    /\ \A key \in DOMAIN table : table[key].count <= dailyLimit
    /\ \A p, q \in Allowed : p # q => cres[p].count # cres[q].count
    /\ (\A p \in DOMAIN cpc : cpc[p] \in {"idle", "done"})
          => Cardinality(Allowed) = Min(Cardinality(Done), dailyLimit)

\* Every caller returned; some were allowed and some refused.
C2_Witness ==
    /\ Done = Callers
    /\ Cardinality(Allowed) = dailyLimit
    /\ Cardinality(Allowed) >= 2
    /\ Allowed # Done

-----------------------------------------------------------------------------
(* Model names and the per-client policy rules.                            *)

claudeOpus46Prefix == <<"c", "l", "a", "u", "d", "e", "-", "o", "p", "u", "s", "-", "4", "-", "6">>

claudeOpus45FallbackPrefix == <<"c", "l", "a", "u", "d", "e", "-", "o", "p", "u", "s", "-", "4", "-", "5", "-", "2", "0", "2", "5", "1", "1", "0", "1">>

claudeThinkingSuffixLiteral == <<"-", "t", "h", "i", "n", "k", "i", "n", "g">>

\* thinking.ParseSuffix: a trailing "(...)" is the thinking suffix; the model
\* name is what precedes its opening parenthesis.
ParseSuffix(model) ==
    LET lastOpen == LastIndex(model, <<"(">>) IN
    IF lastOpen = -1 \/ ~HasSuffix(model, <<")">>)
    THEN [ModelName |-> model, HasSuffix |-> FALSE, RawSuffix |-> <<>>]
    ELSE [ModelName |-> SubSeq(model, 1, lastOpen), HasSuffix |-> TRUE,
          RawSuffix |-> SubSeq(model, lastOpen + 2, Len(model) - 1)]

NormaliseModelKey(model) ==
    ToLower(TrimSpace(ParseSuffix(TrimSpace(model)).ModelName))

\* A downgrade that forgets the "(...)" suffix
DowngradeClaudeOpus46_dropsSuffix(model) ==
    LET base == ParseSuffix(TrimSpace(model)).ModelName IN
    IF TrimSpace(model) = <<>> \/ ~HasPrefix(ToLower(TrimSpace(base)), claudeOpus46Prefix)
    THEN [model |-> model, changed |-> FALSE]
    ELSE [model |-> claudeOpus45FallbackPrefix \o From(base, Len(claudeOpus46Prefix)),
          changed |-> TRUE]

DowngradeClaudeOpus46(model) ==
    LET trimmed == TrimSpace(model)
        parsed == ParseSuffix(trimmed)
        base == parsed.ModelName
        baseLower == ToLower(TrimSpace(base))
        remainder == IF Len(base) >= Len(claudeOpus46Prefix)
                     THEN From(base, Len(claudeOpus46Prefix)) ELSE <<>>
        rewritten == claudeOpus45FallbackPrefix \o remainder
    IN
    IF trimmed = <<>> THEN [model |-> model, changed |-> FALSE]
    ELSE IF ~HasPrefix(baseLower, claudeOpus46Prefix) THEN [model |-> model, changed |-> FALSE]
    ELSE IF parsed.HasSuffix
    THEN [model |-> rewritten \o <<"(">> \o parsed.RawSuffix \o <<")">>, changed |-> TRUE]
    ELSE [model |-> rewritten, changed |-> TRUE]

\* strings.Split(pattern, "*")
RECURSIVE SplitStar(_)
SplitStar(s) ==
    LET i == Index(s, <<"*">>) IN
    IF i < 0 THEN <<s>> ELSE <<SubSeq(s, 1, i)>> \o SplitStar(From(s, i + 1))

\* The loop over the middle segments: each is found leftmost in what is left
RECURSIVE MatchMiddle(_, _, _)
MatchMiddle(parts, i, value) ==
    IF i > Len(parts) - 1 THEN TRUE
    ELSE IF parts[i] = <<>> THEN MatchMiddle(parts, i + 1, value)
    ELSE LET idx == Index(value, parts[i]) IN
         IF idx < 0 THEN FALSE
         ELSE MatchMiddle(parts, i + 1, From(value, idx + Len(parts[i])))

\* A matcher that does not anchor the last segment at the end of the value
MatchWildcard_lastUnanchored(pattern, value) ==
    LET p == ToLower(TrimSpace(pattern))
        v == ToLower(TrimSpace(value))
        parts == SplitStar(p)
    IN
    IF p = <<>> \/ v = <<>> THEN FALSE
    ELSE IF ~Contains(p, <<"*">>) THEN p = v
    ELSE IF parts[1] # <<>> /\ ~HasPrefix(v, parts[1]) THEN FALSE
    ELSE MatchMiddle(parts \o <<<<>>>>, 2, From(v, Len(parts[1])))

MatchWildcard(pattern, value) ==
    LET p == ToLower(TrimSpace(pattern))
        v == ToLower(TrimSpace(value))
        parts == SplitStar(p)
        prefix == parts[1]
        suffix == parts[Len(parts)]
        v1 == IF prefix # <<>> THEN From(v, Len(prefix)) ELSE v
        v2 == IF suffix # <<>> THEN SubSeq(v1, 1, Len(v1) - Len(suffix)) ELSE v1
    IN
    IF p = <<>> \/ v = <<>> THEN FALSE
    ELSE IF ~Contains(p, <<"*">>) THEN p = v
    ELSE IF prefix # <<>> /\ ~HasPrefix(v, prefix) THEN FALSE
    ELSE IF suffix # <<>> /\ ~HasSuffix(v1, suffix) THEN FALSE
    ELSE MatchMiddle(parts, 2, v2)

\* (*APIKeyPolicy).AllowsClaudeOpus46: unset means allowed
AllowsClaudeOpus46(p) == p.allow46 # "false"

\* (*Config).FindAPIKeyPolicy: the policies whose key is apiKey, first one
\* first; the empty sequence stands for nil.
FindAPIKeyPolicy(config, apiKey) ==
    IF config.nil \/ TrimSpace(apiKey) = <<>> THEN <<>>
    ELSE SelectSeq(config.policies, LAMBDA p : TrimSpace(p.api_key) = TrimSpace(apiKey))

\* A resolution that hands the base model's limit to the thinking variant
\* but keeps the variant's own key
resolveDailyLimit_ownKey(p, modelKey) ==
    LET key == ToLower(TrimSpace(modelKey))
        base == TrimSuffix(key, claudeThinkingSuffixLiteral)
    IN
    IF DOMAIN p.limits = {} \/ key = <<>> THEN [limit |-> 0, key |-> <<>>]
    ELSE IF key \in DOMAIN p.limits /\ p.limits[key] > 0
    THEN [limit |-> p.limits[key], key |-> key]
    ELSE IF HasSuffix(key, claudeThinkingSuffixLiteral) /\ base \in DOMAIN p.limits
            /\ p.limits[base] > 0
    THEN [limit |-> p.limits[base], key |-> key]
    ELSE [limit |-> 0, key |-> <<>>]

resolveDailyLimit(p, modelKey) ==
    LET key == ToLower(TrimSpace(modelKey))
        base == TrimSuffix(key, claudeThinkingSuffixLiteral)
    IN
    IF DOMAIN p.limits = {} \/ key = <<>> THEN [limit |-> 0, key |-> <<>>]
    ELSE IF key \in DOMAIN p.limits /\ p.limits[key] > 0
    THEN [limit |-> p.limits[key], key |-> key]
    ELSE IF HasSuffix(key, claudeThinkingSuffixLiteral) /\ base \in DOMAIN p.limits
            /\ p.limits[base] > 0
    THEN [limit |-> p.limits[base], key |-> base]
    ELSE [limit |-> 0, key |-> <<>>]

-----------------------------------------------------------------------------
(* The policy middleware: APIKeyPolicyMiddleware.                          *)

\* The request body, a JSON object with a model field; gjson reads the field
\* and sjson replaces it.
JSONBody(model) == <<"{">> \o model \o <<"}">>

GetModel(body) == SubSeq(body, 2, Len(body) - 1)

\* SQLiteStore.GetDailyCostMicroUSD: the cost stored for the day, 0 if none
GetDailyCostMicroUSD(rows, dayKey) == IF dayKey \in DOMAIN rows THEN rows[dayKey] ELSE 0

\* int64(math.Round(DailyBudgetUSD * 1_000_000)), the budget being counted
\* here in tenths of a micro-USD
BudgetMicro(budget) == (budget + 5) \div 10

BodylessMethods == {"GET", "HEAD", "OPTIONS"}

\* What the middleware did with a request: status 0 and forwarded when it
\* called c.Next, the status and message of the abort otherwise; the body
\* and Content-Length the request then carries.
MWResult(status, msg, fwd, rows, info) ==
    [status |-> status, msg |-> msg, forwarded |-> status = 0, body |-> fwd.body,
     contentLength |-> fwd.contentLength, rows |-> rows, info |-> info]

NoInfo == [budgetStep |-> FALSE, spent |-> 0, exclusionStep |-> FALSE, effective |-> <<>>,
           limitStep |-> FALSE, limitKey |-> <<>>, limit |-> 0]

\* The request as it came in
Unpatched(req) == [body |-> req.body, contentLength |-> req.contentLength]

\* sjson.SetBytes and the Content-Length update, when the model was rewritten
PatchBody(req, model, effectiveModel) ==
    IF effectiveModel # model
    THEN [body |-> JSONBody(effectiveModel), contentLength |-> Len(JSONBody(effectiveModel))]
    ELSE Unpatched(req)

\* A limit step that lets the request pass when it cannot count it
LimitStep_failsOpen(p, req, rows, model, effectiveModel, rl, cons, info) ==
    IF rl.limit > 0 /\ (deps.limiter = "nil" \/ cons.err # "nil")
    THEN MWResult(0, "", PatchBody(req, model, effectiveModel), rows, info)
    ELSE IF rl.limit > 0 /\ ~cons.allowed
    THEN MWResult(429, "daily model limit exceeded", Unpatched(req), cons.rows, info)
    ELSE MWResult(0, "", PatchBody(req, model, effectiveModel),
                  IF rl.limit > 0 THEN cons.rows ELSE rows, info)

\* Step 3, lines 126-163: the daily limit, then the patched body goes on
LimitStep(p, req, rows, model, effectiveModel, rl, cons, info) ==
    IF rl.limit > 0 /\ deps.limiter = "nil"
    THEN MWResult(500, "daily limiter unavailable", Unpatched(req), rows, info)
    ELSE IF rl.limit > 0 /\ cons.err # "nil"
    THEN MWResult(500, cons.err, Unpatched(req), rows, info)
    ELSE IF rl.limit > 0 /\ ~cons.allowed
    THEN MWResult(429, "daily model limit exceeded", Unpatched(req), cons.rows, info)
    ELSE MWResult(0, "", PatchBody(req, model, effectiveModel),
                  IF rl.limit > 0 THEN cons.rows ELSE rows, info)

\* An exclusion step that counts the request before it looks at the patterns
ExclusionStep_countsFirst(found, req, rows, now, model, effectiveModel, modelKey, rl, info) ==
    IF /\ found # <<>>
       /\ Len(found[1].excluded) > 0
       /\ \E i \in 1..Len(found[1].excluded) : MatchWildcard(found[1].excluded[i], modelKey)
    THEN MWResult(403, "model access denied by api key policy", Unpatched(req),
                  Consume(rows, limiterOpen, TrimSpace(req.apiKey), rl.key, DayKeyChina(now),
                          rl.limit, now).rows, info)
    ELSE LimitStep(found, req, rows, model, effectiveModel, rl,
                   Consume(rows, limiterOpen, TrimSpace(req.apiKey), rl.key, DayKeyChina(now),
                           rl.limit, now),
                   [info EXCEPT !.limitStep = rl.limit > 0, !.limitKey = rl.key,
                                !.limit = rl.limit])

\* Step 2, lines 108-131: the exclusion patterns, then the limit that applies
ExclusionStep(found, req, rows, now, model, effectiveModel, modelKey, rl, info) ==
    IF /\ found # <<>>
       /\ Len(found[1].excluded) > 0
       /\ \E i \in 1..Len(found[1].excluded) : MatchWildcard(found[1].excluded[i], modelKey)
    THEN MWResult(403, "model access denied by api key policy", Unpatched(req), rows, info)
    ELSE LimitStep(found, req, rows, model, effectiveModel, rl,
                   Consume(rows, limiterOpen, TrimSpace(req.apiKey), rl.key, DayKeyChina(now),
                           rl.limit, now),
                   [info EXCEPT !.limitStep = rl.limit > 0, !.limitKey = rl.key,
                                !.limit = rl.limit])

\* The limit looked up for the model as the client named it
DowngradeStep_limitOnRequested(found, req, rows, now, model, effectiveModel, info) ==
    ExclusionStep(found, req, rows, now, model, effectiveModel,
                  NormaliseModelKey(effectiveModel),
                  IF found # <<>> /\ DOMAIN found[1].limits # {}
                  THEN resolveDailyLimit(found[1], NormaliseModelKey(model))
                  ELSE [limit |-> 0, key |-> <<>>],
                  [info EXCEPT !.exclusionStep = found # <<>> /\ Len(found[1].excluded) > 0,
                               !.effective = effectiveModel])

\* Step 1, lines 99-106: the downgrade gives the effective model
DowngradeStep(found, req, rows, now, model, effectiveModel, info) ==
    ExclusionStep(found, req, rows, now, model, effectiveModel,
                  NormaliseModelKey(effectiveModel),
                  IF found # <<>> /\ DOMAIN found[1].limits # {}
                  THEN resolveDailyLimit(found[1], NormaliseModelKey(effectiveModel))
                  ELSE [limit |-> 0, key |-> <<>>],
                  [info EXCEPT !.exclusionStep = found # <<>> /\ Len(found[1].excluded) > 0,
                               !.effective = effectiveModel])

\* Lines 86-106: the body is read and its model taken
ModelStep(found, req, rows, now, model, down, info) ==
    IF model = <<>> THEN MWResult(0, "", Unpatched(req), rows, info)
    ELSE DowngradeStep(found, req, rows, now, model,
                       IF found # <<>> /\ ~AllowsClaudeOpus46(found[1]) /\ down.changed
                       THEN down.model ELSE model,
                       info)

\* Step 0, lines 61-84: the daily budget against the persisted cost
BudgetStep(found, req, rows, now, spentMicro, model) ==
    IF found # <<>> /\ found[1].budget > 0 /\ deps.costReader = "nil"
    THEN MWResult(500, "billing store unavailable", Unpatched(req), rows,
                  [NoInfo EXCEPT !.budgetStep = TRUE])
    ELSE IF found # <<>> /\ found[1].budget > 0 /\ deps.costReader = "failing"
    THEN MWResult(500, "cost query failed", Unpatched(req), rows,
                  [NoInfo EXCEPT !.budgetStep = TRUE])
    ELSE IF /\ found # <<>>
       /\ found[1].budget > 0
       /\ BudgetMicro(found[1].budget) > 0
       /\ spentMicro >= BudgetMicro(found[1].budget)
    THEN MWResult(429, "daily budget exceeded", Unpatched(req), rows,
                  [NoInfo EXCEPT !.budgetStep = TRUE, !.spent = spentMicro])
    ELSE ModelStep(found, req, rows, now, model, DowngradeClaudeOpus46(model),
                   IF found # <<>> /\ found[1].budget > 0
                   THEN [NoInfo EXCEPT !.budgetStep = TRUE, !.spent = spentMicro]
                   ELSE NoInfo)

APIKeyPolicyMiddleware(config, req, rows, costRows, now) ==
    IF config.nil THEN MWResult(0, "", Unpatched(req), rows, NoInfo)
    ELSE IF TrimSpace(req.apiKey) = <<>> THEN MWResult(0, "", Unpatched(req), rows, NoInfo)
    ELSE IF req.method \in BodylessMethods THEN MWResult(0, "", Unpatched(req), rows, NoInfo)
    ELSE BudgetStep(FindAPIKeyPolicy(config, TrimSpace(req.apiKey)), req, rows, now,
                    GetDailyCostMicroUSD(costRows, DayKeyChina(now)),
                    TrimSpace(GetModel(req.body)))

-----------------------------------------------------------------------------
(* Requests through the middleware, under one configuration.               *)

\* A client policy as SanitizeAPIKeyPolicies leaves it.  The budget is in
\* tenths of a micro-USD.
Policy(apiKey, allow46, excluded, limits, budget) ==
    [api_key |-> apiKey, allow46 |-> allow46, excluded |-> excluded, limits |-> limits,
     budget |-> budget]

OtherClient == Policy(<<"z">>, "unset", <<<<"*">>>>, <<>>, 0)

\* The configurations the middleware runs under, L being the daily limit
Configs(L) ==
    { [nil |-> TRUE, policies |-> <<>>],
      [nil |-> FALSE, policies |-> <<OtherClient>>],
      [nil |-> FALSE, policies |->
          <<Policy(TheAPIKey, "false", <<>>, claudeOpus46Prefix :> L, 0)>>],
      [nil |-> FALSE, policies |->
          <<Policy(TheAPIKey, "false", <<<<"g", "*", "-", "6">>, <<"c", "l", "a", "u", "d", "e", "-", "*", "-", "4", "-", "5", "-", "*", "-", "t", "h", "i", "n", "k", "i", "n", "g">>>>, <<>>, 0)>>],
      [nil |-> FALSE, policies |->
          <<Policy(TheAPIKey, "unset", <<<<"*", "-", "4", "-", "6">>>>, claudeOpus46Prefix :> L, 0)>>],
      [nil |-> FALSE, policies |->
          <<OtherClient, Policy(TheAPIKey, "true", <<>>, claudeOpus46Prefix :> L, 0)>>] }

\* Configurations with a daily budget: 0.4, 1 and 2 micro-USD
BudgetConfigs ==
    { [nil |-> FALSE, policies |->
          <<Policy(TheAPIKey, "true", <<>>, <<>>, 4)>>],
      [nil |-> FALSE, policies |->
          <<Policy(TheAPIKey, "true", <<<<"g", "p", "t", "*">>>>, <<>>, 10)>>],
      [nil |-> FALSE, policies |->
          <<Policy(TheAPIKey, "false", <<>>, claudeOpus46Prefix :> 1, 20)>>] }

Request(method, apiKey, model) ==
    [method |-> method, apiKey |-> apiKey, body |-> JSONBody(model),
     contentLength |-> Len(JSONBody(model))]

\* The requests clients send
Requests ==
    { Request("POST", TheAPIKey, <<"c", "l", "a", "u", "d", "e", "-", "o", "p", "u", "s", "-", "4", "-", "6">>),
      Request("POST", TheAPIKey, <<" ", "C", "l", "a", "u", "d", "e", "-", "O", "p", "u", "s", "-", "4", "-", "6", "-", "t", "h", "i", "n", "k", "i", "n", "g", "(", "h", "i", "g", "h", ")">>),
      Request("POST", TheAPIKey, <<"g", "p", "t", "-", "5">>),
      Request("POST", TheAPIKey, <<" ">>),
      Request("POST", <<" ">>, <<"c", "l", "a", "u", "d", "e", "-", "o", "p", "u", "s", "-", "4", "-", "6">>),
      Request("GET", TheAPIKey, <<"c", "l", "a", "u", "d", "e", "-", "o", "p", "u", "s", "-", "4", "-", "6">>),
      Request("HEAD", TheAPIKey, <<"c", "l", "a", "u", "d", "e", "-", "o", "p", "u", "s", "-", "4", "-", "6">>),
      Request("OPTIONS", TheAPIKey, <<"c", "l", "a", "u", "d", "e", "-", "o", "p", "u", "s", "-", "4", "-", "6">>) }

\* The calendar day in UTC+8 that the day key names
ShanghaiDay(now) == (now + chinaOffsetHours) \div HoursPerDay

Tally(t, k, fwd) ==
    [x \in (DOMAIN t) \cup {k} |->
        IF x = k
        THEN [req |-> (IF k \in DOMAIN t THEN t[k].req ELSE 0) + 1,
              fwd |-> (IF k \in DOMAIN t THEN t[k].fwd ELSE 0) + (IF fwd THEN 1 ELSE 0)]
        ELSE t[x]]

MWInit ==
    /\ table = ensureSchema(NoRows)
    /\ limiterOpen = TRUE
    /\ clock = StartClock
    /\ epoch = 0
    /\ dailyLimit \in 1..MaxLimit
    /\ last = NoCall
    /\ hist = <<>>
    /\ refusedAt = <<>>
    /\ calls = 0
    /\ ConcIdle
    /\ cfg \in Configs(dailyLimit)
    /\ deps = DepsPresent
    /\ costs = <<>>
    /\ resp = <<>>
    /\ byLimitKey = <<>>
    /\ byModel = <<>>
    /\ ExecIdle

\* What one request leaves behind: the counter rows, the response, the tallies
Respond(req, r, found, requested) ==
    /\ calls < MaxCalls
    /\ calls' = calls + 1
    /\ table' = r.rows
    /\ resp' = <<[req |-> req, hasPolicy |-> found # <<>>,
                  policy |-> IF found # <<>> THEN found[1] ELSE OtherClient,
                  day |-> ShanghaiDay(clock), r |-> r]>>
    /\ byLimitKey' = IF r.info.limitStep /\ r.status # 500
                     THEN Tally(byLimitKey, <<ShanghaiDay(clock), r.info.limitKey>>, r.forwarded)
                     ELSE byLimitKey
    \* past the body read, not rejected by the budget or an exclusion
    /\ byModel' = IF /\ found # <<>>
                     /\ req.method \notin BodylessMethods
                     /\ requested # <<>>
                     /\ r.status \notin {403, 500}
                     /\ r.msg # "daily budget exceeded"
                     /\ requested \in DOMAIN found[1].limits
                  THEN Tally(byModel, <<ShanghaiDay(clock), requested>>, r.forwarded)
                  ELSE byModel
    /\ UNCHANGED <<limiterOpen, clock, epoch, dailyLimit, last, hist, refusedAt>>
    /\ UNCHANGED <<cfg, deps, costs, concVars, exVars, stVars, auxVars>>

\* One request through the middleware
HandleRequest(req) ==
    Respond(req, APIKeyPolicyMiddleware(cfg, req, table, costs, clock),
            FindAPIKeyPolicy(cfg, req.apiKey), NormaliseModelKey(GetModel(req.body)))

DoRequest == \E req \in Requests : HandleRequest(req)

\* SQLiteStore.AddUsage: a usage record adds its cost to the day's total
AddUsage ==
    /\ \E cost \in {1} :
        /\ GetDailyCostMicroUSD(costs, DayKeyChina(clock)) + cost <= MaxCostMicro
        /\ costs' = [d \in (DOMAIN costs) \cup {DayKeyChina(clock)} |->
                        IF d = DayKeyChina(clock)
                        THEN GetDailyCostMicroUSD(costs, d) + cost ELSE costs[d]]
    /\ UNCHANGED <<limVars, concVars, cfg, deps, resp, byLimitKey, byModel, exVars, stVars, auxVars>>

MWNext == DoRequest \/ Tick

SpecMW == MWInit /\ [][MWNext]_vars

\* The middleware under a daily budget, the usage store filling up
BudgetInit ==
    /\ table = ensureSchema(NoRows)
    /\ limiterOpen = TRUE
    /\ clock = StartClock
    /\ epoch = 0
    /\ dailyLimit = 1
    /\ last = NoCall
    /\ hist = <<>>
    /\ refusedAt = <<>>
    /\ calls = 0
    /\ ConcIdle
    /\ cfg \in BudgetConfigs
    /\ deps = DepsPresent
    /\ costs = <<>>
    /\ resp = <<>>
    /\ byLimitKey = <<>>
    /\ byModel = <<>>
    /\ ExecIdle

BudgetNext == DoRequest \/ AddUsage \/ Tick

SpecBudget == BudgetInit /\ [][BudgetNext]_vars

-----------------------------------------------------------------------------
(* Properties of the middleware.                                           *)

\* The last request, once there is one
Handled == resp # <<>>

\* C4 as stated: with daily limit L on model m, of the JSON-body requests for
\* m on one day (none rejected by exclusion or budget) exactly the first L are
\* forwarded.
C4_FirstLRequestsForModel ==
    \A k \in DOMAIN byModel : byModel[k].fwd = Min(byModel[k].req, dailyLimit)

\* C4 (amended): with daily limit L on limit key m, of the JSON-body requests
\* of one day whose effective post-downgrade model resolves to the limit key m
\* (none rejected by exclusion or budget) exactly the first L are forwarded
\* and every later one is aborted with 429 'daily model limit exceeded'.
C4_FirstLRequestsForLimitKey ==
    /\ \A k \in DOMAIN byLimitKey : byLimitKey[k].fwd = Min(byLimitKey[k].req, dailyLimit)
    /\ (Handled /\ resp[1].r.info.limitStep) =>
        LET x == resp[1]
            n == byLimitKey[<<x.day, x.r.info.limitKey>>].req
        IN IF n > dailyLimit
           THEN x.r.status = 429 /\ x.r.msg = "daily model limit exceeded" /\ ~x.r.forwarded
           ELSE x.r.forwarded

\* A request past the limit was aborted; it named the thinking variant of the
\* limited model and was counted on the base model's key.
C4_Witness ==
    /\ Handled
    /\ resp[1].r.info.limitStep
    /\ resp[1].r.status = 429
    /\ dailyLimit >= 2
    /\ byLimitKey[<<resp[1].day, resp[1].r.info.limitKey>>].req = dailyLimit + 1
    /\ resp[1].r.info.limitKey # NormaliseModelKey(resp[1].r.info.effective)

\* What the downgrade of a claude-opus-4-6 model is to give: the fallback
\* prefix, then all that followed the prefix in the trimmed model
ExpectedDowngrade(model) ==
    claudeOpus45FallbackPrefix \o From(TrimSpace(model), Len(claudeOpus46Prefix))

IsOpus46(model) == HasPrefix(NormaliseModelKey(model), claudeOpus46Prefix)

DowngradedOrClean(x) ==
    /\ ~IsOpus46(GetModel(x.r.body))
    /\ IsOpus46(GetModel(x.req.body)) =>
        /\ GetModel(x.r.body) = ExpectedDowngrade(GetModel(x.req.body))
        /\ x.r.contentLength = Len(x.r.body)

\* C7 as stated: when the client's policy has allow-claude-opus-4-6 = false,
\* no forwarded request carries a body model whose canonical key starts with
\* claude-opus-4-6; such a model is rewritten, and Content-Length follows.
C7_NoOpus46Forwarded ==
    (Handled /\ resp[1].hasPolicy /\ resp[1].policy.allow46 = "false" /\ resp[1].r.forwarded)
        => DowngradedOrClean(resp[1])

\* C7 (amended): the same of every forwarded request whose method is not GET,
\* HEAD or OPTIONS.
C7_NoOpus46ForwardedWithBody ==
    (/\ Handled
     /\ resp[1].hasPolicy
     /\ resp[1].policy.allow46 = "false"
     /\ resp[1].r.forwarded
     /\ resp[1].req.method \notin BodylessMethods)
        => DowngradedOrClean(resp[1])

\* A claude-opus-4-6 thinking model with a "(...)" suffix was forwarded rewritten.
C7_Witness ==
    /\ Handled
    /\ resp[1].hasPolicy
    /\ resp[1].policy.allow46 = "false"
    /\ resp[1].r.forwarded
    /\ resp[1].req.method = "POST"
    /\ IsOpus46(GetModel(resp[1].req.body))
    /\ HasSuffix(GetModel(resp[1].r.body), <<")">>)
    /\ Contains(GetModel(resp[1].r.body), claudeThinkingSuffixLiteral)
    /\ resp[1].r.contentLength # resp[1].req.contentLength

\* Wildcard matching by its definition: '*' stands for any run of characters,
\* every other character for itself.
RECURSIVE Glob(_, _)
Glob(p, v) ==
    IF p = <<>> THEN v = <<>>
    ELSE IF Head(p) = "*" THEN Glob(Tail(p), v) \/ (v # <<>> /\ Glob(p, Tail(v)))
    ELSE v # <<>> /\ Head(v) = Head(p) /\ Glob(Tail(p), Tail(v))

AnyPatternMatches(patterns, key) ==
    \E i \in 1..Len(patterns) :
        /\ TrimSpace(patterns[i]) # <<>>
        /\ key # <<>>
        /\ Glob(ToLower(TrimSpace(patterns[i])), ToLower(key))

\* C8: a request at the exclusion step is aborted with 403 'model access
\* denied by api key policy', and not forwarded, when some excluded pattern
\* wildcard-matches the canonical key of its effective post-downgrade model;
\* when none matches, it is not rejected there.
C8_ExcludedIffPatternMatches ==
    (Handled /\ resp[1].r.info.exclusionStep) =>
        LET x == resp[1] IN
        IF AnyPatternMatches(x.policy.excluded, NormaliseModelKey(x.r.info.effective))
        THEN /\ x.r.status = 403
             /\ x.r.msg = "model access denied by api key policy"
             /\ ~x.r.forwarded
        ELSE x.r.status # 403

\* A request was denied for the model the downgrade gave it; its own model
\* matched no pattern.
C8_Witness ==
    /\ Handled
    /\ resp[1].r.info.exclusionStep
    /\ resp[1].r.status = 403
    /\ resp[1].r.info.effective # TrimSpace(GetModel(resp[1].req.body))
    /\ ~AnyPatternMatches(resp[1].policy.excluded, NormaliseModelKey(GetModel(resp[1].req.body)))

\* C9: a non-GET/HEAD/OPTIONS request of a client with daily-budget-usd > 0 is
\* aborted with 429 and not forwarded when the day's persisted cost is at
\* least the budget, and is not rejected by the budget step when it is below.
\* (Cost in micro-USD, budget in tenths of a micro-USD.)
C9_BudgetRejectsAtOrAbove ==
    (/\ Handled
     /\ resp[1].req.method \notin BodylessMethods
     /\ resp[1].hasPolicy
     /\ resp[1].policy.budget > 0)
        => IF resp[1].r.info.spent * 10 >= resp[1].policy.budget
           THEN resp[1].r.status = 429 /\ ~resp[1].r.forwarded
           ELSE resp[1].r.msg # "daily budget exceeded"

-----------------------------------------------------------------------------
(* Errors, failover eligibility and model resolution of the conductor.     *)

\* An upstream error: its StatusCode() (0 when it has none) and its text.  A
\* text that is a JSON error envelope carries error.message and message.
PlainError(code, raw) ==
    [code |-> code, raw |-> raw, json |-> FALSE, envError |-> <<>>, envMessage |-> <<>>]

EnvelopeError(code, errorMessage, message) ==
    [code |-> code, raw |-> <<"{">> \o errorMessage \o <<"|">> \o message \o <<"}">>,
     json |-> TRUE, envError |-> errorMessage, envMessage |-> message]

\* interfaces.ErrorMessage
ErrorMessage(status, err) == [StatusCode |-> status, Error |-> err]

\* extractErrorMessage(errString(err))
extractErrorMessage(err) ==
    IF TrimSpace(err.raw) = <<>> THEN <<>>
    ELSE IF ~err.json THEN TrimSpace(err.raw)
    ELSE IF TrimSpace(err.envError) # <<>> THEN TrimSpace(err.envError)
    ELSE IF TrimSpace(err.envMessage) # <<>> THEN TrimSpace(err.envMessage)
    ELSE TrimSpace(err.raw)

\* Message tests that know a 400 only by the account it names
EligibleMessage_accountOnly(status, msg) ==
    IF msg = <<>> THEN FALSE
    ELSE IF status = 500
    THEN \/ Contains(msg, <<"a", "u", "t", "h", "_", "u", "n", "a", "v", "a", "i", "l", "a", "b", "l", "e">>)
         \/ Contains(msg, <<"a", "u", "t", "h", "_", "n", "o", "t", "_", "f", "o", "u", "n", "d">>)
         \/ Contains(msg, <<"n", "o", " ", "a", "u", "t", "h", " ", "a", "v", "a", "i", "l", "a", "b", "l", "e">>)
    ELSE IF status = 502
    THEN Contains(msg, <<"u", "n", "k", "n", "o", "w", "n", " ", "p", "r", "o", "v", "i", "d", "e", "r">>) /\ Contains(msg, <<"m", "o", "d", "e", "l">>)
    ELSE Contains(msg, <<"a", "c", "c", "o", "u", "n", "t">>)

\* The message tests of isClaudeFailoverEligible, on the lowercased message
EligibleMessage(status, msg) ==
    IF msg = <<>> THEN FALSE
    ELSE IF status = 500
    THEN \/ Contains(msg, <<"a", "u", "t", "h", "_", "u", "n", "a", "v", "a", "i", "l", "a", "b", "l", "e">>)
         \/ Contains(msg, <<"a", "u", "t", "h", "_", "n", "o", "t", "_", "f", "o", "u", "n", "d">>)
         \/ Contains(msg, <<"n", "o", " ", "a", "u", "t", "h", " ", "a", "v", "a", "i", "l", "a", "b", "l", "e">>)
    ELSE IF status = 502
    THEN Contains(msg, <<"u", "n", "k", "n", "o", "w", "n", " ", "p", "r", "o", "v", "i", "d", "e", "r">>) /\ Contains(msg, <<"m", "o", "d", "e", "l">>)
    ELSE \/ Contains(msg, <<"a", "c", "c", "o", "u", "n", "t">>)
         \/ Contains(msg, <<"t", "o", "k", "e", "n">>)
         \/ Contains(msg, <<"o", "a", "u", "t", "h">>)
         \/ Contains(msg, <<"c", "r", "e", "d", "e", "n", "t", "i", "a", "l">>)
         \/ Contains(msg, <<"s", "e", "s", "s", "i", "o", "n">>)
         \/ Contains(msg, <<"l", "o", "g", "i", "n">>)

\* An eligibility that also fails over on 503
isClaudeFailoverEligible_503(status, err) ==
    IF status \in {429, 401, 402, 403, 503} THEN TRUE
    ELSE IF status \in {500, 502, 400}
    THEN EligibleMessage(status, ToLower(extractErrorMessage(err)))
    ELSE FALSE

isClaudeFailoverEligible(status, err) ==
    IF status \in {429, 401, 402, 403} THEN TRUE
    ELSE IF status \in {500, 502, 400}
    THEN EligibleMessage(status, ToLower(extractErrorMessage(err)))
    ELSE FALSE

\* statusFromError
statusFromError(err) == IF err.code > 0 THEN err.code ELSE 0

containsProvider(providers, provider) ==
    /\ ToLower(TrimSpace(provider)) # <<>>
    /\ \E i \in 1..Len(providers) :
          ToLower(TrimSpace(providers[i])) = ToLower(TrimSpace(provider))

defaultClaudeTargetModel == <<"g", "p", "t", "-", "5", ".", "2", "(", "h", "i", "g", "h", ")">>

\* (*APIKeyPolicy).ClaudeFailoverTargetModel; the empty sequence is a nil policy
ClaudeFailoverTargetModel(policy) ==
    IF policy = <<>> THEN [target |-> <<>>, enabled |-> FALSE]
    ELSE IF ~policy[1].enabled THEN [target |-> <<>>, enabled |-> FALSE]
    ELSE IF TrimSpace(policy[1].target_model) = <<>>
    THEN [target |-> defaultClaudeTargetModel, enabled |-> TRUE]
    ELSE [target |-> TrimSpace(policy[1].target_model), enabled |-> TRUE]

\* util.ResolveAutoModel: "auto" stands for a default model
ResolveAutoModel(modelName) == IF modelName = <<"a", "u", "t", "o">> THEN <<"g", "p", "t", "-", "5">> ELSE modelName

\* util.GetProviderName: the providers the registry knows for the model
GetProviderName(registry, model) ==
    IF model \in DOMAIN registry THEN registry[model] ELSE <<>>

\* A heuristic without its case for Claude models
HeuristicProviders_noClaude(lower) ==
    IF \/ HasPrefix(lower, <<"g", "p", "t", "-">>)
       \/ HasPrefix(lower, <<"o", "1">>)
       \/ HasPrefix(lower, <<"o", "3">>)
       \/ HasPrefix(lower, <<"o", "4">>)
       \/ HasPrefix(lower, <<"c", "h", "a", "t", "g", "p", "t", "-">>)
    THEN <<<<"c", "o", "d", "e", "x">>>>
    ELSE IF \/ HasPrefix(lower, <<"g", "e", "m", "i", "n", "i">>)
            \/ HasPrefix(lower, <<"m", "o", "d", "e", "l", "s", "/", "g", "e", "m", "i", "n", "i">>)
            \/ HasPrefix(lower, <<"v", "e", "r", "t", "e", "x">>)
            \/ HasPrefix(lower, <<"a", "i", "s", "t", "u", "d", "i", "o">>)
    THEN <<<<"g", "e", "m", "i", "n", "i">>>>
    ELSE IF HasPrefix(lower, <<"q", "w", "e", "n">>) THEN <<<<"q", "w", "e", "n">>>>
    ELSE IF HasPrefix(lower, <<"k", "i", "m", "i">>) THEN <<<<"k", "i", "m", "i">>>>
    ELSE IF HasPrefix(lower, <<"i", "f", "l", "o", "w">>) THEN <<<<"i", "f", "l", "o", "w">>>>
    ELSE <<>>

\* The provider guessed from the model's prefix when the registry has none
HeuristicProviders(lower) ==
    IF HasPrefix(lower, <<"c", "l", "a", "u", "d", "e", "-">>) THEN <<<<"c", "l", "a", "u", "d", "e">>>>
    ELSE IF \/ HasPrefix(lower, <<"g", "p", "t", "-">>)
            \/ HasPrefix(lower, <<"o", "1">>)
            \/ HasPrefix(lower, <<"o", "3">>)
            \/ HasPrefix(lower, <<"o", "4">>)
            \/ HasPrefix(lower, <<"c", "h", "a", "t", "g", "p", "t", "-">>)
    THEN <<<<"c", "o", "d", "e", "x">>>>
    ELSE IF \/ HasPrefix(lower, <<"g", "e", "m", "i", "n", "i">>)
            \/ HasPrefix(lower, <<"m", "o", "d", "e", "l", "s", "/", "g", "e", "m", "i", "n", "i">>)
            \/ HasPrefix(lower, <<"v", "e", "r", "t", "e", "x">>)
            \/ HasPrefix(lower, <<"a", "i", "s", "t", "u", "d", "i", "o">>)
    THEN <<<<"g", "e", "m", "i", "n", "i">>>>
    ELSE IF HasPrefix(lower, <<"q", "w", "e", "n">>) THEN <<<<"q", "w", "e", "n">>>>
    ELSE IF HasPrefix(lower, <<"k", "i", "m", "i">>) THEN <<<<"k", "i", "m", "i">>>>
    ELSE IF HasPrefix(lower, <<"i", "f", "l", "o", "w">>) THEN <<<<"i", "f", "l", "o", "w">>>>
    ELSE <<>>

\* The end of getRequestDetails: the providers found, or 502
RequestDetails(modelName, resolvedModelName, providers) ==
    IF Len(providers) = 0
    THEN [providers |-> <<>>, model |-> <<>>, ok |-> FALSE,
          err |-> ErrorMessage(502, PlainError(0, <<"u", "n", "k", "n", "o", "w", "n", " ", "p", "r", "o", "v", "i", "d", "e", "r", " ", "f", "o", "r", " ", "m", "o", "d", "e", "l", " ">>  \o modelName))]
    ELSE [providers |-> providers, model |-> resolvedModelName, ok |-> TRUE,
          err |-> ErrorMessage(0, PlainError(0, <<>>))]

\* The provider lookups of getRequestDetails: base model, full name, prefix
LookupProviders(registry, resolvedModelName, baseModel) ==
    IF Len(GetProviderName(registry, baseModel)) > 0 THEN GetProviderName(registry, baseModel)
    ELSE IF baseModel # resolvedModelName /\ Len(GetProviderName(registry, resolvedModelName)) > 0
    THEN GetProviderName(registry, resolvedModelName)
    ELSE HeuristicProviders(ToLower(TrimSpace(baseModel)))

\* The model name getRequestDetails resolves to
ResolvedModelName(modelName, initialSuffix) ==
    IF initialSuffix.ModelName = <<"a", "u", "t", "o">>
    THEN IF initialSuffix.HasSuffix
         THEN ResolveAutoModel(initialSuffix.ModelName) \o <<"(">> \o initialSuffix.RawSuffix \o <<")">>
         ELSE ResolveAutoModel(initialSuffix.ModelName)
    ELSE ResolveAutoModel(modelName)

ResolvedDetails(registry, modelName, resolvedModelName) ==
    RequestDetails(modelName, resolvedModelName,
                   LookupProviders(registry, resolvedModelName,
                                   TrimSpace(ParseSuffix(resolvedModelName).ModelName)))

getRequestDetails(registry, modelName) ==
    ResolvedDetails(registry, modelName, ResolvedModelName(modelName, ParseSuffix(modelName)))

\* Every model is taken for a Claude model
seemsClaudeModel_any(modelName) == TRUE

seemsClaudeModel(modelName) ==
    HasPrefix(ToLower(TrimSpace(ParseSuffix(ResolveAutoModel(modelName)).ModelName)), <<"c", "l", "a", "u", "d", "e", "-">>)

-----------------------------------------------------------------------------
(* Non-streaming execution: ExecuteWithAuthManager.                        *)

\* The Claude failover block of a client policy
FailoverPolicy(enabled, targetModel) == <<[enabled |-> enabled, target_model |-> targetModel]>>

FailoverPolicies ==
    { <<>>,
      FailoverPolicy(FALSE, <<"g", "p", "t", "-", "5">>),
      FailoverPolicy(TRUE, <<>>),
      FailoverPolicy(TRUE, <<"g", "p", "t", "-", "5">>),
      FailoverPolicy(TRUE, <<"c", "l", "a", "u", "d", "e", "-", "o", "p", "u", "s", "-", "4", "-", "6">>),
      FailoverPolicy(TRUE, <<"c", "l", "a", "u", "d", "e", "-", "x">>),
      FailoverPolicy(TRUE, <<"f", "o", "o">>) }

\* The model registry: not warmed up, or knowing one Claude model
Registries == { <<>>, <<"c", "l", "a", "u", "d", "e", "-", "o", "p", "u", "s", "-", "4", "-", "6">> :> <<<<"C", "l", "a", "u", "d", "e">>>> }

RequestedModels == { <<"c", "l", "a", "u", "d", "e", "-", "o", "p", "u", "s", "-", "4", "-", "6">>, <<"g", "p", "t", "-", "5">>, <<"a", "u", "t", "o", "(", "h", "i", "g", "h", ")">>, <<"f", "o", "o">> }

\* One document of a payload: a "data: " line of an event stream or a bare
\* body; JSON with its model and message.model fields when it has them, or
\* other text.  A payload is the sequence of its documents.
Event(sse, json, model, messageModel, rest) ==
    [sse |-> sse, json |-> json, model |-> model, messageModel |-> messageModel, rest |-> rest]

\* The bodies an upstream answers with
ResponsePayloads ==
    { <<>>,
      <<Event(FALSE, TRUE, <<<<"g", "p", "t", "-", "5", ".", "2">>>>, <<>>, "msg_1")>>,
      <<Event(FALSE, TRUE, <<>>, <<<<"g", "p", "t", "-", "5", ".", "2">>>>, "msg_2")>>,
      <<Event(FALSE, TRUE, <<<<"c", "l", "a", "u", "d", "e", "-", "o", "p", "u", "s", "-", "4", "-", "6">>>>, <<>>, "msg_3")>>,
      <<Event(FALSE, TRUE, <<>>, <<>>, "msg_4")>> }

\* A document with its model fields set to the given model where it has them
rewriteEvent(e, model) ==
    IF ~e.json THEN e
    ELSE [e EXCEPT !.model = IF @ # <<>> THEN <<model>> ELSE @,
                   !.messageModel = IF @ # <<>> THEN <<model>> ELSE @]

\* The payload is one bare JSON document
IsRawJSON(data) == Len(data) = 1 /\ ~data[1].sse /\ data[1].json

\* rewriteResponseModelFields: model and message.model of a JSON body
rewriteResponseModelFields(data, model) ==
    IF Len(data) = 0 \/ model = <<>> THEN data
    ELSE IF ~IsRawJSON(data) THEN data
    ELSE <<rewriteEvent(data[1], model)>>

\* rewriteStreamChunkModelFields: a bare JSON chunk, or each "data: " line
rewriteStreamChunkModelFields(chunk, model) ==
    IF Len(chunk) = 0 \/ model = <<>> THEN chunk
    ELSE IF IsRawJSON(chunk) THEN rewriteResponseModelFields(chunk, model)
    ELSE [i \in 1..Len(chunk) |-> IF chunk[i].sse THEN rewriteEvent(chunk[i], model) ELSE chunk[i]]

\* What AuthManager.Execute may answer
UpstreamErrors ==
    { PlainError(429, <<"r", "a", "t", "e">>),
      EnvelopeError(500, <<"a", "u", "t", "h", "_", "u", "n", "a", "v", "a", "i", "l", "a", "b", "l", "e", ":", " ", "n", "o", " ", "a", "u", "t", "h", " ", "a", "v", "a", "i", "l", "a", "b", "l", "e">>, <<>>),
      PlainError(0, <<"b", "o", "o", "m">>),
      PlainError(400, <<"A", "c", "c", "o", "u", "n", "t", " ", "d", "i", "s", "a", "b", "l", "e", "d">>),
      PlainError(400, <<"m", "e", "s", "s", "a", "g", "e", "s", ":", " ", "f", "i", "e", "l", "d", " ", "r", "e", "q", "u", "i", "r", "e", "d">>),
      PlainError(404, <<>>) }

Outcomes == {[ok |-> TRUE, err |-> PlainError(0, <<>>), payload |-> p] : p \in ResponsePayloads} \cup
            {[ok |-> FALSE, err |-> e, payload |-> <<>>] : e \in UpstreamErrors}

\* execOnce: the error of the call with its status, 500 when it has none
execOnce(outcome) ==
    IF outcome.ok
    THEN [ok |-> TRUE, err |-> ErrorMessage(0, outcome.err), payload |-> outcome.payload]
    ELSE [ok |-> FALSE,
          err |-> ErrorMessage(IF outcome.err.code > 0 THEN outcome.err.code ELSE 500,
                               outcome.err),
          payload |-> <<>>]

\* A failover tried whatever the target model is
ShouldFailover_sameModel(enabled, providers, targetModel, normalizedModel) ==
    enabled /\ containsProvider(providers, <<"c", "l", "a", "u", "d", "e">>) /\ TrimSpace(targetModel) # <<>>

\* Line 645: failover is on, the providers include claude, the target differs
ShouldFailover(enabled, providers, targetModel, normalizedModel) ==
    /\ enabled
    /\ containsProvider(providers, <<"c", "l", "a", "u", "d", "e">>)
    /\ TrimSpace(targetModel) # <<>>
    /\ targetModel # normalizedModel

\* The counter store and the middleware at rest
PolicyIdle ==
    /\ table = ensureSchema(NoRows)
    /\ limiterOpen = TRUE
    /\ clock = StartClock
    /\ epoch = 0
    /\ dailyLimit = 1
    /\ last = NoCall
    /\ hist = <<>>
    /\ refusedAt = <<>>
    /\ calls = 0
    /\ ConcIdle
    /\ cfg = [nil |-> TRUE, policies |-> <<>>]
    /\ deps = DepsPresent
    /\ costs = <<>>
    /\ resp = <<>>
    /\ byLimitKey = <<>>
    /\ byModel = <<>>

ExecInit ==
    /\ PolicyIdle
    /\ StreamIdle
    /\ xReq \in [modelName : RequestedModels, policy : FailoverPolicies, registry : Registries]
    /\ xPc = "start"
    /\ xCur = <<>>
    /\ xCalls = <<>>
    /\ xResult = <<>>

\* Every body is given the requested model, failover or not
Return_alwaysRewritten(result) ==
    /\ xPc' = "done"
    /\ xResult' = <<[result EXCEPT !.payload = rewriteResponseModelFields(@, xReq.modelName)]>>

Return(result) ==
    /\ xPc' = "done"
    /\ xResult' = <<result>>

\* Lines 561-595: the model is resolved; when that fails, a Claude-looking
\* model may go on with the failover target
Resolved(details, target, targetDetails) ==
    /\ IF details.ok
       THEN xPc' = "primary" /\ xCur' = <<details>> /\ UNCHANGED xResult
       ELSE IF /\ xReq.policy # <<>>
               /\ target.enabled
               /\ TrimSpace(target.target) # <<>>
               /\ target.target # xReq.modelName
               /\ seemsClaudeModel(xReq.modelName)
               /\ isClaudeFailoverEligible(details.err.StatusCode, details.err.Error)
       THEN IF targetDetails.ok
            THEN xPc' = "primary" /\ xCur' = <<targetDetails>> /\ UNCHANGED xResult
            ELSE Return([ok |-> FALSE, err |-> targetDetails.err]) /\ UNCHANGED xCur
       ELSE Return([ok |-> FALSE, err |-> details.err]) /\ UNCHANGED xCur
    /\ UNCHANGED <<xReq, xCalls>>
    /\ UNCHANGED <<limVars, concVars, mwVars, stVars, auxVars>>

XResolve ==
    /\ xPc = "start"
    /\ Resolved(getRequestDetails(xReq.registry, xReq.modelName),
                ClaudeFailoverTargetModel(xReq.policy),
                getRequestDetails(xReq.registry, ClaudeFailoverTargetModel(xReq.policy).target))

\* Lines 633-687: the primary call returned
PrimaryReturned(out, target, targetDetails) ==
    /\ xCalls' = Append(xCalls, [kind |-> "primary", providers |-> xCur[1].providers,
                                 model |-> xCur[1].model, out |-> out])
    /\ IF out.ok THEN Return(out) /\ UNCHANGED xCur
       ELSE IF /\ ShouldFailover(target.enabled, xCur[1].providers, target.target, xCur[1].model)
               /\ isClaudeFailoverEligible(IF out.err.StatusCode <= 0
                                           THEN statusFromError(out.err.Error)
                                           ELSE out.err.StatusCode, out.err.Error)
               /\ targetDetails.ok
       THEN xPc' = "failover" /\ xCur' = <<targetDetails>> /\ UNCHANGED xResult
       ELSE Return(out) /\ UNCHANGED xCur
    /\ UNCHANGED xReq
    /\ UNCHANGED <<limVars, concVars, mwVars, stVars, auxVars>>

XPrimary ==
    /\ xPc = "primary"
    /\ \E outcome \in Outcomes :
        PrimaryReturned(execOnce(outcome), ClaudeFailoverTargetModel(xReq.policy),
                        getRequestDetails(xReq.registry, ClaudeFailoverTargetModel(xReq.policy).target))

\* Lines 677-681: the failover call returned
XFailover ==
    /\ xPc = "failover"
    /\ \E outcome \in Outcomes :
        /\ xCalls' = Append(xCalls, [kind |-> "failover", providers |-> xCur[1].providers,
                                     model |-> xCur[1].model, out |-> execOnce(outcome)])
        /\ Return(execOnce(outcome))
    /\ UNCHANGED <<xReq, xCur>>
    /\ UNCHANGED <<limVars, concVars, mwVars, stVars, auxVars>>

ExecNext == XResolve \/ XPrimary \/ XFailover

SpecExec == ExecInit /\ [][ExecNext]_vars

\* C10: ExecuteWithAuthManager calls AuthManager.Execute at most twice: a
\* primary call and at most one failover call, the latter only after the
\* primary call failed with a failover-eligible error while Claude failover
\* is enabled, the providers include claude and the target model differs from
\* the requested one.  A failed failover call's error is returned; without a
\* failover call the primary error is returned unchanged.
C10_AtMostOneFailoverCall ==
    /\ Len(xCalls) <= 2
    /\ \A i \in 1..Len(xCalls) : xCalls[i].kind = (IF i = 1 THEN "primary" ELSE "failover")
    /\ Len(xCalls) = 2 =>
        /\ ~xCalls[1].out.ok
        /\ isClaudeFailoverEligible(xCalls[1].out.err.StatusCode, xCalls[1].out.err.Error)
        /\ xReq.policy # <<>>
        /\ xReq.policy[1].enabled
        /\ \E i \in 1..Len(xCalls[1].providers) : ToLower(xCalls[1].providers[i]) = <<"c", "l", "a", "u", "d", "e">>
        /\ xCalls[2].model # xCalls[1].model
        /\ xCalls[2].model # xReq.modelName
    /\ (xPc = "done" /\ Len(xCalls) = 2 /\ ~xCalls[2].out.ok) => xResult = <<xCalls[2].out>>
    /\ (xPc = "done" /\ Len(xCalls) = 1 /\ ~xCalls[1].out.ok) => xResult = <<xCalls[1].out>>
    /\ (/\ xPc = "done"
        /\ Len(xCalls) >= 1
        /\ ~xCalls[1].out.ok
        /\ \/ xReq.policy = <<>>
           \/ ~xReq.policy[1].enabled
           \/ ~isClaudeFailoverEligible(xCalls[1].out.err.StatusCode, xCalls[1].out.err.Error))
          => Len(xCalls) = 1

\* The primary call failed with an eligible error, the failover call was
\* made and failed too, and its error came back.
C10_Witness ==
    /\ xPc = "done"
    /\ Len(xCalls) = 2
    /\ ~xCalls[2].out.ok
    /\ xResult = <<xCalls[2].out>>
    /\ xCalls[2].out # xCalls[1].out

-----------------------------------------------------------------------------
(* Streaming execution: ExecuteStreamWithAuthManager.                      *)

MaxChunks == 3

MaxBootstrapRetries == 1

defaultStreamingBootstrapRetries == 0

\* A negative setting taken for its size
StreamingBootstrapRetries_absolute(sdkCfg) ==
    IF sdkCfg = <<>> THEN defaultStreamingBootstrapRetries
    ELSE IF sdkCfg[1] < 0 THEN 0 - sdkCfg[1]
    ELSE sdkCfg[1]

\* StreamingBootstrapRetries; the empty sequence is a nil configuration
StreamingBootstrapRetries(sdkCfg) ==
    IF sdkCfg = <<>> THEN defaultStreamingBootstrapRetries
    ELSE IF sdkCfg[1] < 0 THEN 0
    ELSE sdkCfg[1]

StreamErrors ==
    { PlainError(429, <<"r", "a", "t", "e">>),
      PlainError(0, <<"e", "o", "f">>),
      PlainError(400, <<"b", "a", "d">>),
      PlainError(401, <<"n", "o", " ", "k", "e", "y">>),
      PlainError(500, <<"a", "u", "t", "h", "_", "n", "o", "t", "_", "f", "o", "u", "n", "d">>) }

StreamOutcomes == {[ok |-> TRUE, err |-> PlainError(0, <<>>)]} \cup
                  {[ok |-> FALSE, err |-> e] : e \in StreamErrors}

\* What the upstream channel hands over: a closed channel, an error, a
\* payload; stream tells which execStream call's channel it was read from
Chunk(open, payload, err) == [open |-> open, Payload |-> payload, Err |-> err, stream |-> 0]

\* The payloads of the chunks an upstream streams
ChunkPayloads ==
    { <<Event(TRUE, TRUE, <<>>, <<<<"g", "p", "t", "-", "5", ".", "2">>>>, "message_start")>>,
      <<Event(TRUE, FALSE, <<>>, <<>>, "[DONE]")>> }

Chunks ==
    {Chunk(FALSE, <<>>, <<>>), Chunk(TRUE, <<>>, <<>>)}
    \cup {Chunk(TRUE, p, <<>>) : p \in ChunkPayloads}
    \cup {Chunk(TRUE, <<>>, <<e>>) : e \in StreamErrors}

\* execStream: the error of the call with its status, 500 when it has none
execStream(outcome) ==
    IF outcome.ok THEN [ok |-> TRUE, err |-> ErrorMessage(0, outcome.err)]
    ELSE [ok |-> FALSE,
          err |-> ErrorMessage(IF outcome.err.code > 0 THEN outcome.err.code ELSE 500,
                               outcome.err)]

\* statusHeadersError of a failed execStream call
statusHeadersError(errMsg) == [errMsg.Error EXCEPT !.code = errMsg.StatusCode]

\* A bad request is retried as well
bootstrapEligible_badRequest(err) ==
    \/ statusFromError(err) = 0
    \/ statusFromError(err) \in {400, 401, 403, 402, 408, 429}
    \/ statusFromError(err) >= 500

\* Lines 995-1007
bootstrapEligible(err) ==
    \/ statusFromError(err) = 0
    \/ statusFromError(err) \in {401, 403, 402, 408, 429}
    \/ statusFromError(err) >= 500

\* A bootstrap retry that does not look at what was sent
BootstrapAllowed_afterPayload(sentPayload, bootstrapRetries, maxBootstrapRetries, err) ==
    /\ bootstrapRetries < maxBootstrapRetries
    /\ bootstrapEligible(err)

\* Lines 1028-1029: a bootstrap retry is allowed
BootstrapAllowed(sentPayload, bootstrapRetries, maxBootstrapRetries, err) ==
    /\ ~sentPayload
    /\ bootstrapRetries < maxBootstrapRetries
    /\ bootstrapEligible(err)

\* Lines 907 and 1043: failover is on, the providers include claude, the
\* target differs
StreamFailoverOn(enabled, providers, targetModel, normalizedModel) ==
    /\ enabled
    /\ containsProvider(providers, <<"c", "l", "a", "u", "d", "e">>)
    /\ targetModel # <<>>
    /\ targetModel # normalizedModel

Loop(sentPayload, bootstrapRetries, failoverAttempted, details) ==
    [sentPayload |-> sentPayload, bootstrapRetries |-> bootstrapRetries,
     failoverAttempted |-> failoverAttempted,
     providers |-> details.providers, normalizedModel |-> details.model]

Call(kind, model) == [kind |-> kind, model |-> model]

\* The error message the goroutine hands to sendErr
Surfaced(streamErr) ==
    ErrorMessage(IF streamErr.code > 0 THEN streamErr.code ELSE 500, streamErr)

\* Lines 812-855: the model is resolved, or the failover target in its place
ResolveOrFailover(modelName, policy, details, target, targetDetails) ==
    IF details.ok THEN details
    ELSE IF /\ policy # <<>>
            /\ target.enabled
            /\ TrimSpace(target.target) # <<>>
            /\ target.target # modelName
            /\ seemsClaudeModel(modelName)
            /\ isClaudeFailoverEligible(details.err.StatusCode, details.err.Error)
    THEN targetDetails
    ELSE details

\* The deferred close(errChan) and close(dataChan) of the reader goroutine
Closed(out) == [out EXCEPT !.dataCloses = @ + 1, !.errCloses = @ + 1]

\* The handler returns a nil data channel and a closed error channel holding
\* one error
ReturnError(callsMade, errMsg) ==
    /\ sPc' = "closed"
    /\ sLoop' = <<>>
    /\ sCalls' = callsMade
    /\ sOut' = [data |-> <<>>, errs |-> <<errMsg>>,
                 dataNil |-> TRUE, dataCloses |-> 0, errCloses |-> 1]

\* The handler starts the reader goroutine
StartReader(callsMade, loop) ==
    /\ sPc' = "reading"
    /\ sLoop' = loop
    /\ sCalls' = callsMade
    /\ sOut' = [data |-> <<>>, errs |-> <<>>,
                 dataNil |-> FALSE, dataCloses |-> 0, errCloses |-> 0]

\* Lines 902-958: the first execStream call and the failover of its failure
OpenStream(cur, target, targetDetails, out, failOut) ==
    IF ~cur.ok THEN ReturnError(<<>>, cur.err)
    ELSE IF out.ok
    THEN StartReader(<<Call("primary", cur.model)>>, Loop(FALSE, 0, FALSE, cur))
    ELSE IF /\ StreamFailoverOn(target.enabled, cur.providers, target.target, cur.model)
            /\ isClaudeFailoverEligible(IF out.err.StatusCode <= 0
                                        THEN statusFromError(out.err.Error)
                                        ELSE out.err.StatusCode, out.err.Error)
            /\ targetDetails.ok
    THEN IF failOut.ok
         THEN StartReader(<<Call("primary", cur.model), Call("failover", targetDetails.model)>>,
                          Loop(FALSE, 0, TRUE, targetDetails))
         ELSE ReturnError(<<Call("primary", cur.model), Call("failover", targetDetails.model)>>,
                          failOut.err)
    ELSE ReturnError(<<Call("primary", cur.model)>>, out.err)

SStart ==
    /\ sPc = "start"
    /\ \E outcome, failOutcome \in StreamOutcomes :
        OpenStream(ResolveOrFailover(sReq.modelName, sReq.policy,
                                     getRequestDetails(sReq.registry, sReq.modelName),
                                     ClaudeFailoverTargetModel(sReq.policy),
                                     getRequestDetails(sReq.registry,
                                                       ClaudeFailoverTargetModel(sReq.policy).target)),
                   ClaudeFailoverTargetModel(sReq.policy),
                   getRequestDetails(sReq.registry, ClaudeFailoverTargetModel(sReq.policy).target),
                   execStream(outcome), execStream(failOutcome))
    /\ UNCHANGED <<sReq, ctxDone, sSeen>>
    /\ UNCHANGED <<limVars, concVars, mwVars, exVars, auxVars>>

\* The goroutine goes round the outer loop on a new upstream channel
ContinueOuter(loop, callsMade) ==
    /\ sPc' = "reading"
    /\ sLoop' = loop
    /\ sCalls' = callsMade
    /\ UNCHANGED sOut

\* A goroutine that goes on reading after it has sent the error
SendErrAndReturn_readsOn(loop, callsMade, streamErr) ==
    /\ sPc' = "reading"
    /\ sLoop' = loop
    /\ sCalls' = callsMade
    /\ sOut' = [sOut EXCEPT !.errs = Append(@, Surfaced(streamErr))]

\* Lines 1090-1103: sendErr, then the goroutine returns.  With the context
\* done the select may take either case.
SendErrAndReturn(loop, callsMade, streamErr) ==
    /\ sPc' = "closed"
    /\ sLoop' = loop
    /\ sCalls' = callsMade
    /\ \/ sOut' = Closed([sOut EXCEPT !.errs = Append(@, Surfaced(streamErr))])
       \/ /\ ~sReq.ctxNil
          /\ ctxDone
          /\ sOut' = Closed(sOut)

\* A failover on every eligible error before the first byte
FailoverOrSurface_everyTime(loop, callsMade, streamErr, target, targetDetails, failOut) ==
    IF /\ ~loop.sentPayload
       /\ target.enabled
       /\ isClaudeFailoverEligible(statusFromError(streamErr), streamErr)
    THEN IF ~targetDetails.ok
         THEN SendErrAndReturn([loop EXCEPT !.failoverAttempted = TRUE], callsMade, streamErr)
         ELSE IF failOut.ok
         THEN ContinueOuter(Loop(loop.sentPayload, 0, TRUE, targetDetails),
                            Append(callsMade, Call("failover", targetDetails.model)))
         ELSE SendErrAndReturn([loop EXCEPT !.failoverAttempted = TRUE],
                               Append(callsMade, Call("failover", targetDetails.model)),
                               statusHeadersError(failOut.err))
    ELSE SendErrAndReturn(loop, callsMade, streamErr)

\* Lines 1043-1088: the failover before the first byte
FailoverOrSurface(loop, callsMade, streamErr, target, targetDetails, failOut) ==
    IF /\ ~loop.sentPayload
       /\ ~loop.failoverAttempted
       /\ StreamFailoverOn(target.enabled, loop.providers, target.target, loop.normalizedModel)
       /\ isClaudeFailoverEligible(statusFromError(streamErr), streamErr)
    THEN IF ~targetDetails.ok
         THEN SendErrAndReturn([loop EXCEPT !.failoverAttempted = TRUE], callsMade, streamErr)
         ELSE IF failOut.ok
         THEN ContinueOuter(Loop(loop.sentPayload, 0, TRUE, targetDetails),
                            Append(callsMade, Call("failover", targetDetails.model)))
         ELSE SendErrAndReturn([loop EXCEPT !.failoverAttempted = TRUE],
                               Append(callsMade, Call("failover", targetDetails.model)),
                               statusHeadersError(failOut.err))
    ELSE SendErrAndReturn(loop, callsMade, streamErr)

\* Lines 1026-1103: an error chunk
OnChunkErr(loop, streamErr, maxBootstrapRetries, retryOut, target, targetDetails, failOut) ==
    IF BootstrapAllowed(loop.sentPayload, loop.bootstrapRetries, maxBootstrapRetries, streamErr)
    THEN IF retryOut.ok
         THEN ContinueOuter([loop EXCEPT !.bootstrapRetries = @ + 1],
                            Append(sCalls, Call("retry", loop.normalizedModel)))
         ELSE FailoverOrSurface([loop EXCEPT !.bootstrapRetries = @ + 1],
                                Append(sCalls, Call("retry", loop.normalizedModel)),
                                statusHeadersError(retryOut.err), target, targetDetails, failOut)
    ELSE FailoverOrSurface(loop, sCalls, streamErr, target, targetDetails, failOut)

\* Lines 1009-1112: the goroutine takes a chunk from the upstream channel
SRead ==
    /\ sPc = "reading"
    /\ Len(sSeen) < MaxChunks
    /\ \E chunk \in Chunks :
        /\ sSeen' = Append(sSeen, [chunk EXCEPT !.stream = Len(sCalls)])
        /\ IF ~chunk.open
           THEN sPc' = "closed" /\ sOut' = Closed(sOut) /\ UNCHANGED <<sLoop, sCalls>>
           ELSE IF chunk.Err # <<>>
           THEN \E retryOutcome, failOutcome \in StreamOutcomes :
                    OnChunkErr(sLoop, chunk.Err[1], StreamingBootstrapRetries(sReq.sdkCfg),
                               execStream(retryOutcome), ClaudeFailoverTargetModel(sReq.policy),
                               getRequestDetails(sReq.registry,
                                                 ClaudeFailoverTargetModel(sReq.policy).target),
                               execStream(failOutcome))
           ELSE IF Len(chunk.Payload) > 0
           THEN /\ sPc' = "sending"
                /\ sLoop' = [sLoop EXCEPT !.sentPayload = TRUE]
                /\ UNCHANGED <<sCalls, sOut>>
           ELSE UNCHANGED <<sPc, sLoop, sCalls, sOut>>
    /\ UNCHANGED <<sReq, ctxDone>>
    /\ UNCHANGED <<limVars, concVars, mwVars, exVars, auxVars>>

\* Lines 1012-1013: the read select takes ctx.Done
SReadCancelled ==
    /\ sPc = "reading"
    /\ ~sReq.ctxNil
    /\ ctxDone
    /\ sPc' = "closed"
    /\ sOut' = Closed(sOut)
    /\ UNCHANGED <<sReq, sLoop, sCalls, ctxDone, sSeen>>
    /\ UNCHANGED <<limVars, concVars, mwVars, exVars, auxVars>>

\* The chunk goes out twice
SDeliver_twice ==
    /\ sPc = "sending"
    /\ sPc' = "reading"
    /\ sOut' = [sOut EXCEPT !.data = @ \o <<sSeen[Len(sSeen)].Payload, sSeen[Len(sSeen)].Payload>>]
    /\ UNCHANGED <<sReq, sLoop, sCalls, ctxDone, sSeen>>
    /\ UNCHANGED <<limVars, concVars, mwVars, exVars, auxVars>>

\* Lines 984-985: the client takes the chunk from dataChan
SDeliver ==
    /\ sPc = "sending"
    /\ sPc' = "reading"
    /\ sOut' = [sOut EXCEPT !.data = Append(@, sSeen[Len(sSeen)].Payload)]
    /\ UNCHANGED <<sReq, sLoop, sCalls, ctxDone, sSeen>>
    /\ UNCHANGED <<limVars, concVars, mwVars, exVars, auxVars>>

\* Lines 982-983 and 1107-1108: the send select takes ctx.Done
SSendCancelled ==
    /\ sPc = "sending"
    /\ ~sReq.ctxNil
    /\ ctxDone
    /\ sPc' = "closed"
    /\ sOut' = Closed(sOut)
    /\ UNCHANGED <<sReq, sLoop, sCalls, ctxDone, sSeen>>
    /\ UNCHANGED <<limVars, concVars, mwVars, exVars, auxVars>>

\* The client goes away or the server shuts down
Cancel ==
    /\ sPc \in {"reading", "sending"}
    /\ ~sReq.ctxNil
    /\ ~ctxDone
    /\ ctxDone' = TRUE
    /\ UNCHANGED <<sReq, sPc, sLoop, sCalls, sOut, sSeen>>
    /\ UNCHANGED <<limVars, concVars, mwVars, exVars, auxVars>>

StreamPolicies ==
    { <<>>,
      FailoverPolicy(TRUE, <<"g", "p", "t", "-", "5">>),
      FailoverPolicy(TRUE, <<"c", "l", "a", "u", "d", "e", "-", "o", "p", "u", "s", "-", "4", "-", "6">>),
      FailoverPolicy(TRUE, <<"f", "o", "o">>) }

StreamInit ==
    /\ PolicyIdle
    /\ xReq = <<>>
    /\ xPc = "idle"
    /\ xCur = <<>>
    /\ xCalls = <<>>
    /\ xResult = <<>>
    /\ sReq \in [modelName : {<<"c", "l", "a", "u", "d", "e", "-", "o", "p", "u", "s", "-", "4", "-", "6">>, <<"f", "o", "o">>},
                 policy : StreamPolicies,
                 registry : {<<>>},
                 sdkCfg : {<<>>, <<-1>>, <<MaxBootstrapRetries>>},
                 ctxNil : BOOLEAN]
    /\ sPc = "start"
    /\ sLoop = <<>>
    /\ sCalls = <<>>
    /\ sOut = <<>>
    /\ ctxDone = FALSE
    /\ sSeen = <<>>
    /\ AuxIdle

StreamNext == SStart \/ SRead \/ SReadCancelled \/ SDeliver \/ SSendCancelled \/ Cancel

SpecStream == StreamInit /\ [][StreamNext]_vars

\* A non-empty payload chunk has been taken for the client
PayloadEmitted == \E i \in 1..Len(sSeen) : Len(sSeen[i].Payload) > 0

\* An upstream error came after a payload chunk
LateError ==
    /\ PayloadEmitted
    /\ sSeen[Len(sSeen)].Err # <<>>

\* C3 as stated: after a non-empty payload chunk no execStream call is
\* started, and every later upstream error is on the error channel with the
\* stream ended.
C3_LateErrorAlwaysSurfaced ==
    /\ [][PayloadEmitted => sCalls' = sCalls]_vars
    /\ [](LateError => /\ sPc = "closed"
                       /\ sOut.errs = <<Surfaced(sSeen[Len(sSeen)].Err[1])>>)

\* C3: after a non-empty payload chunk no execStream call is started; a
\* later upstream error ends the stream, and it is on the error channel
\* unless the request's context is cancelled.
C3_NoExecutionAfterPayload ==
    /\ [][PayloadEmitted => sCalls' = sCalls]_vars
    /\ [](LateError => /\ sPc = "closed"
                       /\ \/ sOut.errs = <<Surfaced(sSeen[Len(sSeen)].Err[1])>>
                          \/ ctxDone /\ sOut.errs = <<>>)

\* A payload chunk reached the client, then a retryable, failover-eligible
\* error came on a stream with retries and failover available, and no
\* further call was made.
C3_Witness ==
    /\ LateError
    /\ sOut.data # <<>>
    /\ sOut.errs # <<>>
    /\ sSeen[Len(sSeen)].Err[1].code = 429
    /\ StreamingBootstrapRetries(sReq.sdkCfg) > 0
    /\ ~sLoop.failoverAttempted
    /\ sReq.policy = FailoverPolicy(TRUE, <<"g", "p", "t", "-", "5">>)
    /\ Len(sCalls) = 1

-----------------------------------------------------------------------------
(* Response masquerade: the model fields of what goes back to the client.  *)

RewriteInputs ==
    ResponsePayloads \cup ChunkPayloads \cup
    { <<Event(TRUE, TRUE, <<<<"g", "p", "t", "-", "5", ".", "2">>>>, <<>>, "a"), Event(TRUE, TRUE, <<>>, <<>>, "delta")>>,
      <<Event(FALSE, FALSE, <<>>, <<>>, "plain")>>,
      <<Event(FALSE, TRUE, <<<<"g", "p", "t", "-", "5", ".", "2">>>>, <<<<"g", "p", "t", "-", "5", ".", "2">>>>, "both")>> }

RewriteInit ==
    /\ PolicyIdle
    /\ xReq = <<>>
    /\ xPc = "idle"
    /\ xCur = <<>>
    /\ xCalls = <<>>
    /\ xResult = <<>>
    /\ sReq = <<>>
    /\ sPc = "idle"
    /\ sLoop = <<>>
    /\ sCalls = <<>>
    /\ sOut = <<>>
    /\ ctxDone = FALSE
    /\ sSeen = <<>>
    /\ rw \in [helper : {"response", "chunk"}, data : RewriteInputs,
               model : {<<>>, <<"c", "l", "a", "u", "d", "e", "-", "o", "p", "u", "s", "-", "4", "-", "6">>}, out : {<<>>}, done : {FALSE}]
    /\ PoolIdle
    /\ SideIdle

\* A rewrite helper is applied to its input
ApplyRewrite ==
    /\ rw # <<>>
    /\ ~rw.done
    /\ rw' = [rw EXCEPT !.done = TRUE,
                        !.out = IF rw.helper = "response"
                                THEN rewriteResponseModelFields(rw.data, rw.model)
                                ELSE rewriteStreamChunkModelFields(rw.data, rw.model)]
    /\ UNCHANGED <<limVars, concVars, mwVars, exVars, stVars, poolVars, sideVars>>

\* Non-streaming requests, streaming requests and the helpers on their own
MasqInit == ExecInit \/ StreamInit \/ RewriteInit

MasqNext == ExecNext \/ StreamNext \/ ApplyRewrite

SpecMasq == MasqInit /\ [][MasqNext]_vars

\* The model fields a payload carries
ModelFields(data) ==
    {data[i].model[1] : i \in {j \in 1..Len(data) : data[j].model # <<>>}}
    \cup {data[i].messageModel[1] : i \in {j \in 1..Len(data) : data[j].messageModel # <<>>}}

\* The payload with its model fields left out
OtherFields(data) == [i \in 1..Len(data) |-> [data[i] EXCEPT !.model = <<>>, !.messageModel = <<>>]]

\* The non-empty payloads among the chunks read
RECURSIVE NonEmptyPayloads(_)
NonEmptyPayloads(seen) ==
    IF seen = <<>> THEN <<>>
    ELSE IF Len(seen[Len(seen)].Payload) > 0
    THEN Append(NonEmptyPayloads(SubSeq(seen, 1, Len(seen) - 1)), seen[Len(seen)].Payload)
    ELSE NonEmptyPayloads(SubSeq(seen, 1, Len(seen) - 1))

\* C11 as stated: after a failover the body handed back carries the
\* client-requested model in every model field it has, and nothing else of
\* the failover call's body is changed.
C11_FailoverResponseCarriesRequestedModel ==
    (xPc = "done" /\ Len(xCalls) = 2 /\ xResult[1].ok) =>
        /\ ModelFields(xResult[1].payload) \subseteq {xReq.modelName}
        /\ OtherFields(xResult[1].payload) = OtherFields(xCalls[2].out.payload)

\* C12: without a failover the body handed back is the primary call's body
\* and every chunk delivered is the chunk read from upstream, model fields
\* included; the rewrite helpers give back their input when it is empty,
\* when the model is empty, when it has no model field and when it holds no
\* JSON.
C12_NoFailoverPayloadIdentical ==
    /\ (xPc = "done" /\ Len(xCalls) = 1 /\ xResult[1].ok) =>
           xResult[1].payload = xCalls[1].out.payload
    /\ (sPc \in {"reading", "sending", "closed"}
        /\ \A i \in 1..Len(sCalls) : sCalls[i].kind # "failover") =>
           \A i \in 1..Len(sOut.data) : sOut.data[i] = NonEmptyPayloads(sSeen)[i]
    /\ (rw # <<>> /\ rw.done
        /\ \/ rw.data = <<>>
           \/ rw.model = <<>>
           \/ ModelFields(rw.data) = {}
           \/ \A i \in 1..Len(rw.data) : ~rw.data[i].json) =>
           rw.out = rw.data

\* A body naming another model than the requested one came back from the
\* only call of a request whose policy has failover enabled.
C12_Witness ==
    /\ xPc = "done"
    /\ Len(xCalls) = 1
    /\ xResult[1].ok
    /\ ModelFields(xResult[1].payload) = {<<"g", "p", "t", "-", "5", ".", "2">>}
    /\ xReq.modelName = <<"c", "l", "a", "u", "d", "e", "-", "o", "p", "u", "s", "-", "4", "-", "6">>
    /\ xReq.policy = FailoverPolicy(TRUE, <<"g", "p", "t", "-", "5">>)

-----------------------------------------------------------------------------
(* Credential pool manager: Manager.Execute over the credentials of one    *)
(* provider, fill-first.                                                   *)

MaxPoolRequests == 2

\* The credentials of the claude provider, in registration order
PoolAuths == <<"a", "b", "c">>

PoolModels == {<<"c", "l", "a", "u", "d", "e", "-", "s", "o", "n", "n", "e", "t", "-", "4">>, <<"c", "l", "a", "u", "d", "e", "-", "o", "p", "u", "s", "-", "4", "-", "6">>}

\* What the executor answers for a credential
AuthAnswers ==
    [ok       |-> PlainError(0, <<>>),
     disabled |-> EnvelopeError(400, <<"a", "c", "c", "o", "u", "n", "t", " ", "d", "i", "s", "a", "b", "l", "e", "d">>, <<>>),
     schema   |-> EnvelopeError(400, <<"m", "e", "s", "s", "a", "g", "e", "s", ":", " ", "f", "i", "e", "l", "d", " ", "r", "e", "q", "u", "i", "r", "e", "d">>, <<>>),
     busy     |-> PlainError(503, <<"o", "v", "e", "r", "l", "o", "a", "d", "e", "d">>)]

\* The class of a failed attempt: "account", "quota", "transient" or "client"
ClassifyError(err) ==
    IF err.code \in {401, 402, 403} THEN "account"
    ELSE IF err.code = 429 THEN "quota"
    ELSE IF err.code = 400
    THEN IF EligibleMessage(400, ToLower(extractErrorMessage(err))) THEN "account"
         ELSE IF Contains(ToLower(extractErrorMessage(err)), <<"q", "u", "o", "t", "a">>) THEN "quota"
         ELSE "client"
    ELSE "transient"

\* Traversal stops at a client-caused error and at the first success
AbortsTraversal_onAny400(err) == err.code = 400

\* Traversal goes on past every failure
AbortsTraversal_never(err) == FALSE

AbortsTraversal(err) == ClassifyError(err) = "client"

\* Fill-first: the first credential, in order, neither tried nor cooling down
RECURSIVE FirstUsable(_, _, _, _)
FirstUsable(auths, tried, cooldown, model) ==
    IF auths = <<>> THEN <<>>
    ELSE IF auths[1] \notin tried /\ <<auths[1], model>> \notin cooldown THEN <<auths[1]>>
    ELSE FirstUsable(Tail(auths), tried, cooldown, model)

nonPoolVars == <<limVars, concVars, mwVars, exVars, stVars, rw, sideVars>>

PoolInit ==
    /\ PolicyIdle
    /\ xReq = <<>>
    /\ xPc = "idle"
    /\ xCur = <<>>
    /\ xCalls = <<>>
    /\ xResult = <<>>
    /\ sReq = <<>>
    /\ sPc = "idle"
    /\ sLoop = <<>>
    /\ sCalls = <<>>
    /\ sOut = <<>>
    /\ ctxDone = FALSE
    /\ sSeen = <<>>
    /\ rw = <<>>
    /\ SideIdle
    /\ pAuths \in [{"a", "b", "c"} -> {"ok", "disabled", "schema", "busy"}]
    /\ pCooldown = {}
    /\ pPc = "idle"
    /\ pReq = <<>>
    /\ pLog = <<>>

\* Manager.Execute is entered
PBegin ==
    /\ pPc = "idle"
    /\ Len(pLog) < MaxPoolRequests
    /\ \E model \in PoolModels :
        pReq' = [model |-> model, coolAtStart |-> pCooldown, attempts |-> <<>>]
    /\ pPc' = "running"
    /\ UNCHANGED <<pAuths, pCooldown, pLog, nonPoolVars>>

\* The request is over: its record goes to the log
Finished(req, cooldown, ok, err) ==
    /\ pPc' = "idle"
    /\ pReq' = <<>>
    /\ pCooldown' = cooldown
    /\ pLog' = Append(pLog, [model |-> req.model, coolAtStart |-> req.coolAtStart,
                             attempts |-> req.attempts, coolAtEnd |-> cooldown,
                             ok |-> ok, err |-> err])

\* One attempt with the chosen credential and the answer it got
Attempted(auth, answer) ==
    IF answer.code = 0 /\ answer.raw = <<>>
    THEN Finished([pReq EXCEPT !.attempts = Append(@, auth)],
                  pCooldown \ {<<auth, pReq.model>>}, TRUE, <<>>)
    ELSE IF AbortsTraversal(answer)
    THEN Finished([pReq EXCEPT !.attempts = Append(@, auth)], pCooldown, FALSE, <<answer>>)
    ELSE /\ pReq' = [pReq EXCEPT !.attempts = Append(@, auth)]
         /\ pCooldown' = pCooldown \cup {<<auth, pReq.model>>}
         /\ UNCHANGED <<pPc, pLog>>

\* The selector picks a credential; with none left the request fails
PStep ==
    /\ pPc = "running"
    /\ IF FirstUsable(PoolAuths, {pReq.attempts[i] : i \in 1..Len(pReq.attempts)},
                      pCooldown, pReq.model) = <<>>
       THEN Finished(pReq, pCooldown, FALSE, <<PlainError(500, <<"a", "u", "t", "h", "_", "u", "n", "a", "v", "a", "i", "l", "a", "b", "l", "e", ":", " ", "n", "o", " ", "a", "u", "t", "h", " ", "a", "v", "a", "i", "l", "a", "b", "l", "e">>)>>)
       ELSE Attempted(FirstUsable(PoolAuths, {pReq.attempts[i] : i \in 1..Len(pReq.attempts)},
                                  pCooldown, pReq.model)[1],
                      AuthAnswers[pAuths[FirstUsable(PoolAuths,
                                                    {pReq.attempts[i] : i \in 1..Len(pReq.attempts)},
                                                    pCooldown, pReq.model)[1]]])
    /\ UNCHANGED <<pAuths, nonPoolVars>>

\* Between requests a cooldown window runs out
PExpire ==
    /\ pPc = "idle"
    /\ \E entry \in pCooldown : pCooldown' = pCooldown \ {entry}
    /\ UNCHANGED <<pAuths, pPc, pReq, pLog, nonPoolVars>>

PoolNext == PBegin \/ PStep \/ PExpire

SpecPool == PoolInit /\ [][PoolNext]_vars

\* The credentials a request could use when it began, in order
RECURSIVE UsableAtStart(_, _, _)
UsableAtStart(auths, cooldown, model) ==
    IF auths = <<>> THEN <<>>
    ELSE IF <<auths[1], model>> \in cooldown THEN UsableAtStart(Tail(auths), cooldown, model)
    ELSE <<auths[1]>> \o UsableAtStart(Tail(auths), cooldown, model)

\* C13: a request tries the credentials not cooling down for its model in
\* fill-first order; an account-disabled 400 does not end the traversal,
\* the next credential is tried until one succeeds; each credential that
\* failed that way is cooling down for the model afterwards; so with a and b
\* disabled and c working the first request makes the attempts a, b, c and
\* succeeds, and a request for the same model with a and b cooling down makes
\* the one attempt c.
C13_TraversalContinuesPastDisabled ==
    \A k \in 1..Len(pLog) :
        /\ Len(pLog[k].attempts) <= Len(UsableAtStart(PoolAuths, pLog[k].coolAtStart, pLog[k].model))
        /\ pLog[k].attempts =
               SubSeq(UsableAtStart(PoolAuths, pLog[k].coolAtStart, pLog[k].model),
                      1, Len(pLog[k].attempts))
        /\ \A i \in 1..Len(pLog[k].attempts) :
               pAuths[pLog[k].attempts[i]] = "disabled" =>
                   /\ <<pLog[k].attempts[i], pLog[k].model>> \in pLog[k].coolAtEnd
                   /\ \/ i < Len(pLog[k].attempts)
                      \/ i = Len(UsableAtStart(PoolAuths, pLog[k].coolAtStart, pLog[k].model))
        /\ pLog[k].ok <=> (pLog[k].attempts # <<>>
                           /\ pAuths[pLog[k].attempts[Len(pLog[k].attempts)]] = "ok")
        /\ (pAuths = [a |-> "disabled", b |-> "disabled", c |-> "ok"]
            /\ {<<"a", pLog[k].model>>, <<"b", pLog[k].model>>} \cap pLog[k].coolAtStart = {}) =>
               pLog[k].attempts = <<"a", "b", "c">> /\ pLog[k].ok
        /\ (pAuths = [a |-> "disabled", b |-> "disabled", c |-> "ok"]
            /\ {<<"a", pLog[k].model>>, <<"b", pLog[k].model>>} \subseteq pLog[k].coolAtStart) =>
               pLog[k].attempts = <<"c">> /\ pLog[k].ok

\* a and b are disabled: the first request went a, b, c and the second, for
\* the same model with a and b cooling down, went straight to c.
C13_Witness ==
    /\ Len(pLog) = 2
    /\ pAuths = [a |-> "disabled", b |-> "disabled", c |-> "ok"]
    /\ pLog[1].attempts = <<"a", "b", "c">>
    /\ pLog[1].ok
    /\ pLog[2].model = pLog[1].model
    /\ pLog[2].attempts = <<"c">>
    /\ pLog[2].ok
    /\ {<<"a", pLog[2].model>>, <<"b", pLog[2].model>>} \subseteq pLog[2].coolAtStart

\* C14 as stated: when a streaming request is over, on whichever path, the
\* data channel and the error channel handed back have each been closed
\* exactly once, and neither is ever closed twice.
C14_BothChannelsClosedOnce ==
    /\ sOut # <<>> => sOut.dataCloses <= 1 /\ sOut.errCloses <= 1
    /\ sPc = "closed" => /\ ~sOut.dataNil
                         /\ sOut.dataCloses = 1
                         /\ sOut.errCloses = 1

\* The chunks read from the channel of the last execStream call
ServedStream == SelectSeq(sSeen, LAMBDA c : c.stream = Len(sCalls))

\* C15 as stated: when the stream is over the chunks delivered are exactly
\* the non-empty payloads of the upstream stream finally served, in order.
C15_DeliveredExactlyUpstream ==
    sPc = "closed" => sOut.data = NonEmptyPayloads(ServedStream)

\* C15: the chunks delivered are, in order and once each, the non-empty
\* payloads read from the upstream stream finally served, all of them but
\* the one being sent; only a cancelled request ends with that one undelivered.
C15_DeliveredInUpstreamOrder ==
    sOut # <<>> =>
        /\ NonEmptyPayloads(sSeen) = NonEmptyPayloads(ServedStream)
        /\ Len(sOut.data) <= Len(NonEmptyPayloads(ServedStream))
        /\ sOut.data = SubSeq(NonEmptyPayloads(ServedStream), 1, Len(sOut.data))
        /\ Len(NonEmptyPayloads(ServedStream)) - Len(sOut.data) <= 1
        /\ sPc = "reading" => sOut.data = NonEmptyPayloads(ServedStream)
        /\ (sPc = "closed" /\ ~ctxDone) => sOut.data = NonEmptyPayloads(ServedStream)

\* A failover replaced the stream before the first payload, and two different
\* payloads of the new stream were delivered in the order they came.
C15_Witness ==
    /\ sPc = "closed"
    /\ Len(sCalls) = 2
    /\ sCalls[2].kind = "failover"
    /\ Len(sSeen) > 0
    /\ sSeen[1].stream = 1
    /\ Len(sOut.data) = 2
    /\ sOut.data[1] # sOut.data[2]
    /\ sOut.data = NonEmptyPayloads(ServedStream)

-----------------------------------------------------------------------------
(* The billing store: the per-day usage rows.                              *)

MaxUsageCalls == 2

\* The counter columns of api_key_model_daily_usage
UsageColumns == {"Requests", "FailedRequests", "InputTokens", "OutputTokens",
                 "ReasoningTokens", "CachedTokens", "TotalTokens", "CostMicroUSD"}

DailyUsageRow(requests, failed, input, output, reasoning, cached, total, cost) ==
    [Requests |-> requests, FailedRequests |-> failed, InputTokens |-> input,
     OutputTokens |-> output, ReasoningTokens |-> reasoning, CachedTokens |-> cached,
     TotalTokens |-> total, CostMicroUSD |-> cost]

\* What callers pass to AddUsage: two spellings of one client and another
\* client, two spellings of one model, another model and a blank one, two
\* days, and a delta that is positive in every column, one with requests
\* below zero and one with a cost below zero
UsageKeys == {<<"k", "1">>, <<" ", "k", "1">>, <<"k", "2">>}

UsageModels == {<<"g", "p", "t", "-", "5">>, <<"G", "P", "T", "-", "5", " ">>, <<"o", "3">>, <<>>}

UsageDays == {<<"0", "1", "-", "0", "1">>, <<"0", "1", "-", "0", "2">>}

UsageDeltas == {DailyUsageRow(2, 1, 2, 1, 1, 1, 5, 3),
                DailyUsageRow(-1, 0, 1, 1, 0, 0, 2, 1),
                DailyUsageRow(1, 0, 1, 1, 0, 0, 2, -1)}

max64(a, b) == IF a > b THEN a ELSE b

\* A store whose upsert replaces the row instead of adding to it
SQLiteStore_AddUsage_replaces(rows, apiKey, model, dayKey, delta) ==
    LET key == TrimSpace(apiKey)
        modelKey == NormaliseModelKey(model)
        day == TrimSpace(dayKey)
        excluded == [c \in UsageColumns |-> max64(0, delta[c])]
    IN
    IF key = <<>> \/ modelKey = <<>> \/ day = <<>>
    THEN [err |-> "invalid inputs", rows |-> rows]
    ELSE IF delta.Requests < 0 \/ delta.FailedRequests < 0
    THEN [err |-> "invalid request deltas", rows |-> rows]
    ELSE [err |-> "",
          rows |-> [t \in DOMAIN rows \cup {<<key, modelKey, day>>} |->
                        IF t = <<key, modelKey, day>> THEN excluded ELSE rows[t]]]

\* SQLiteStore.AddUsage: the inputs are normalised and checked, then the row
\* is inserted or, on conflict, each column grows by the clamped delta
SQLiteStore_AddUsage(rows, apiKey, model, dayKey, delta) ==
    LET key == TrimSpace(apiKey)
        modelKey == NormaliseModelKey(model)
        day == TrimSpace(dayKey)
        excluded == [c \in UsageColumns |-> max64(0, delta[c])]
    IN
    IF key = <<>> \/ modelKey = <<>> \/ day = <<>>
    THEN [err |-> "invalid inputs", rows |-> rows]
    ELSE IF delta.Requests < 0 \/ delta.FailedRequests < 0
    THEN [err |-> "invalid request deltas", rows |-> rows]
    ELSE [err |-> "",
          rows |-> [t \in DOMAIN rows \cup {<<key, modelKey, day>>} |->
                        IF t # <<key, modelKey, day>> THEN rows[t]
                        ELSE IF t \in DOMAIN rows
                        THEN [c \in UsageColumns |-> rows[t][c] + excluded[c]]
                        ELSE excluded]]

\* SUM(cost_micro_usd) over a set of rows
RECURSIVE SumCostMicroUSD(_, _)
SumCostMicroUSD(rows, triples) ==
    IF triples = {} THEN 0
    ELSE LET t == CHOOSE x \in triples : TRUE IN
         rows[t].CostMicroUSD + SumCostMicroUSD(rows, triples \ {t})

\* SQLiteStore.GetDailyCostMicroUSD: COALESCE(SUM(cost_micro_usd), 0) over the
\* rows of the client and the day
SQLiteStore_GetDailyCostMicroUSD(rows, apiKey, dayKey) ==
    LET key == TrimSpace(apiKey)
        day == TrimSpace(dayKey)
    IN
    IF key = <<>> \/ day = <<>>
    THEN [err |-> "invalid inputs", total |-> 0]
    ELSE [err |-> "",
          total |-> SumCostMicroUSD(rows, {t \in DOMAIN rows : t[1] = key /\ t[3] = day})]

\* NewSQLiteStore on a fresh file: no usage row
\* No request is on its way through the middleware or the handlers
RequestPathIdle ==
    /\ PolicyIdle
    /\ xReq = <<>>
    /\ xPc = "idle"
    /\ xCur = <<>>
    /\ xCalls = <<>>
    /\ xResult = <<>>
    /\ sReq = <<>>
    /\ sPc = "idle"
    /\ sLoop = <<>>
    /\ sCalls = <<>>
    /\ sOut = <<>>
    /\ ctxDone = FALSE
    /\ sSeen = <<>>

UsageInit ==
    /\ RequestPathIdle
    /\ rw = <<>>
    /\ PoolIdle
    /\ usage = <<>>
    /\ usageLog = <<>>
    /\ uRes = [calls |-> 0, op |-> "none"]
    /\ savedPrices = <<>>
    /\ priceRes = <<>>
    /\ fe = <<>>
    /\ PureIdle

otherThanUsage == <<limVars, concVars, mwVars, exVars, stVars, rw, poolVars, savedPrices, priceRes, fe, pureVars>>

\* One AddUsage call; an accepted one goes to the log with its arguments
UAddUsage ==
    /\ uRes.calls < MaxUsageCalls
    /\ \E apiKey \in UsageKeys, model \in UsageModels, dayKey \in UsageDays, delta \in UsageDeltas :
        LET r == SQLiteStore_AddUsage(usage, apiKey, model, dayKey, delta) IN
        /\ usage' = r.rows
        /\ uRes' = [calls |-> uRes.calls + 1, op |-> "add", err |-> r.err]
        /\ usageLog' = IF r.err # "" THEN usageLog
                       ELSE Append(usageLog, [apiKey |-> apiKey, model |-> model,
                                              dayKey |-> dayKey, delta |-> delta])
    /\ UNCHANGED otherThanUsage

\* One GetDailyCostMicroUSD call
UGetDailyCost ==
    /\ uRes.op # "cost"
    /\ \E apiKey \in UsageKeys, dayKey \in UsageDays :
        LET r == SQLiteStore_GetDailyCostMicroUSD(usage, apiKey, dayKey) IN
        uRes' = [calls |-> uRes.calls, op |-> "cost", apiKey |-> apiKey, dayKey |-> dayKey,
                 err |-> r.err, total |-> r.total]
    /\ UNCHANGED <<usage, usageLog>>
    /\ UNCHANGED otherThanUsage

UsageNext == UAddUsage \/ UGetDailyCost

SpecUsage == UsageInit /\ [][UsageNext]_vars

\* The accepted calls, each with the row it is for
RowsOfCalls(log) ==
    [i \in 1..Len(log) |->
        [triple |-> <<TrimSpace(log[i].apiKey), NormaliseModelKey(log[i].model),
                      TrimSpace(log[i].dayKey)>>,
         delta |-> log[i].delta]]

\* The sum of one column's deltas over the accepted calls for one row
RECURSIVE SumOfDeltas(_, _, _)
SumOfDeltas(calls_, triple, column) ==
    IF calls_ = <<>> THEN 0
    ELSE SumOfDeltas(SubSeq(calls_, 1, Len(calls_) - 1), triple, column)
         + (IF calls_[Len(calls_)].triple = triple THEN calls_[Len(calls_)].delta[column] ELSE 0)

\* Every row holds the sums of the deltas of its calls, and only rows with a call exist
RowsAreSums(rows, calls_) ==
    /\ \A t \in DOMAIN rows :
        /\ \E i \in 1..Len(calls_) : calls_[i].triple = t
        /\ \A c \in UsageColumns : rows[t][c] = SumOfDeltas(calls_, t, c)
    /\ \A i \in 1..Len(calls_) : calls_[i].triple \in DOMAIN rows

\* The sum of the cost column of one client and day, model by model
RECURSIVE CostOverModels(_, _, _, _)
CostOverModels(rows, key, day, models) ==
    IF models = {} THEN 0
    ELSE LET model == CHOOSE x \in models : TRUE IN
         (IF <<key, model, day>> \in DOMAIN rows THEN rows[<<key, model, day>>].CostMicroUSD ELSE 0)
         + CostOverModels(rows, key, day, models \ {model})

NonNegativeDeltas(log) ==
    \A i \in 1..Len(log) : \A c \in UsageColumns : log[i].delta[c] >= 0

\* The model keys the calls of the model can name
UsageModelKeys == {NormaliseModelKey(model) : model \in UsageModels}

\* C16: no counter column of a usage row ever decreases; when every accepted
\* AddUsage call had non-negative deltas each column of each row is the sum
\* of the deltas of the accepted calls for that row, a row without such a
\* call not existing; and GetDailyCostMicroUSD is the sum of the cost column
\* over the models of the client and day, 0 when there is no row.
C16_CountersAreSumsOfDeltas ==
    /\ [](NonNegativeDeltas(usageLog) => RowsAreSums(usage, RowsOfCalls(usageLog)))
    /\ [](\A k \in UsageKeys, d \in UsageDays :
                LET r == SQLiteStore_GetDailyCostMicroUSD(usage, k, d) IN
                /\ r.err = ""
                /\ r.total = CostOverModels(usage, TrimSpace(k), TrimSpace(d), UsageModelKeys)
                /\ (\A t \in DOMAIN usage : t[1] # TrimSpace(k) \/ t[3] # TrimSpace(d)) => r.total = 0)
    /\ [][\A t \in DOMAIN usage :
            /\ t \in DOMAIN usage'
            /\ \A c \in UsageColumns : usage'[t][c] >= usage[t][c]]_vars

\* Two accepted calls with non-negative deltas met in one row, whose columns
\* hold twice the delta, and the day's cost was read for that client.
C16_Witness ==
    /\ Len(usageLog) = 2
    /\ NonNegativeDeltas(usageLog)
    /\ usageLog[1].model # usageLog[2].model
    /\ usageLog[1].apiKey # usageLog[2].apiKey
    /\ \E t \in DOMAIN usage : usage[t].CostMicroUSD = 6 /\ usage[t].FailedRequests = 2
    /\ uRes.op = "cost"
    /\ uRes.total = 6

-----------------------------------------------------------------------------
(* The billing store: model prices.                                        *)

PriceMicroUSDPer1M(prompt, completion, cached) ==
    [Prompt |-> prompt, Completion |-> completion, Cached |-> cached]

claudeOpus45 == <<"c", "l", "a", "u", "d", "e", "-", "o", "p", "u", "s", "-", "4", "-", "5", "-", "2", "0", "2", "5", "1", "1", "0", "1">>

\* The built-in table: one entry
DefaultPrices ==
    [k \in {NormaliseModelKey(claudeOpus45)} |-> PriceMicroUSDPer1M(5000000, 25000000, 500000)]

StripThinkingVariant(modelKey) ==
    TrimSuffix(ToLower(TrimSpace(modelKey)), claudeThinkingSuffixLiteral)

\* The models callers name: one with a built-in price and its thinking
\* variant, one without and its thinking variant in another spelling, one
\* that nobody prices, a blank one
PriceModels == {claudeOpus45, claudeOpus45 \o claudeThinkingSuffixLiteral,
                <<"g", "p", "t", "-", "5">>, <<" ", "G", "P", "T", "-", "5", "-", "T", "h", "i", "n", "k", "i", "n", "g", "(", "h", "i", "g", "h", ")">>, <<"o", "3">>, <<" ">>}

\* The prices callers save: two valid ones and one with a negative rate
PriceInputs == {PriceMicroUSDPer1M(1, 2, 3), PriceMicroUSDPer1M(0, 0, 0),
                PriceMicroUSDPer1M(1, -2, 3)}

\* SQLiteStore.UpsertModelPrice
UpsertModelPrice(saved, model, price) ==
    LET key == NormaliseModelKey(model) IN
    IF key = <<>> THEN [err |-> "model is required", saved |-> saved]
    ELSE IF price.Prompt < 0 \/ price.Completion < 0 \/ price.Cached < 0
    THEN [err |-> "invalid price", saved |-> saved]
    ELSE [err |-> "",
          saved |-> [k \in DOMAIN saved \cup {key} |-> IF k = key THEN price ELSE saved[k]]]

\* SQLiteStore.DeleteModelPrice
DeleteModelPrice(saved, model) ==
    LET key == NormaliseModelKey(model) IN
    IF key = <<>> THEN [err |-> "model is required", deleted |-> FALSE, saved |-> saved]
    ELSE [err |-> "", deleted |-> key \in DOMAIN saved,
          saved |-> [k \in DOMAIN saved \ {key} |-> saved[k]]]

\* A resolution that asks the built-in table before the saved overrides
ResolvePriceMicro_defaultFirst(saved, model) ==
    LET modelKey == NormaliseModelKey(model)
        baseKey == StripThinkingVariant(modelKey)
    IN
    IF modelKey = <<>>
    THEN [err |-> "model is required", price |-> PriceMicroUSDPer1M(0, 0, 0), source |-> ""]
    ELSE IF modelKey \in DOMAIN DefaultPrices
    THEN [err |-> "", price |-> DefaultPrices[modelKey], source |-> "default"]
    ELSE IF baseKey # <<>> /\ baseKey # modelKey /\ baseKey \in DOMAIN DefaultPrices
    THEN [err |-> "", price |-> DefaultPrices[baseKey], source |-> "default"]
    ELSE IF modelKey \in DOMAIN saved
    THEN [err |-> "", price |-> saved[modelKey], source |-> "saved"]
    ELSE IF baseKey # <<>> /\ baseKey # modelKey /\ baseKey \in DOMAIN saved
    THEN [err |-> "", price |-> saved[baseKey], source |-> "saved"]
    ELSE [err |-> "", price |-> PriceMicroUSDPer1M(0, 0, 0), source |-> "missing"]

\* SQLiteStore.ResolvePriceMicro, the update timestamp left out
ResolvePriceMicro(saved, model) ==
    LET modelKey == NormaliseModelKey(model)
        baseKey == StripThinkingVariant(modelKey)
    IN
    IF modelKey = <<>>
    THEN [err |-> "model is required", price |-> PriceMicroUSDPer1M(0, 0, 0), source |-> ""]
    ELSE IF modelKey \in DOMAIN saved
    THEN [err |-> "", price |-> saved[modelKey], source |-> "saved"]
    ELSE IF baseKey # <<>> /\ baseKey # modelKey /\ baseKey \in DOMAIN saved
    THEN [err |-> "", price |-> saved[baseKey], source |-> "saved"]
    ELSE IF modelKey \in DOMAIN DefaultPrices
    THEN [err |-> "", price |-> DefaultPrices[modelKey], source |-> "default"]
    ELSE IF baseKey # <<>> /\ baseKey # modelKey /\ baseKey \in DOMAIN DefaultPrices
    THEN [err |-> "", price |-> DefaultPrices[baseKey], source |-> "default"]
    ELSE [err |-> "", price |-> PriceMicroUSDPer1M(0, 0, 0), source |-> "missing"]

\* NewSQLiteStore on a fresh file: no saved price
PricesInit ==
    /\ RequestPathIdle
    /\ rw = <<>>
    /\ PoolIdle
    /\ usage = <<>>
    /\ usageLog = <<>>
    /\ uRes = <<>>
    /\ savedPrices = <<>>
    /\ priceRes = [op |-> "none"]
    /\ fe = <<>>
    /\ PureIdle

otherThanPrices == <<limVars, concVars, mwVars, exVars, stVars, rw, poolVars, usage, usageLog, uRes, fe, pureVars>>

PUpsert ==
    /\ \E model \in PriceModels, price \in PriceInputs :
        LET r == UpsertModelPrice(savedPrices, model, price) IN
        /\ savedPrices' = r.saved
        /\ priceRes' = [op |-> "upsert", model |-> model, price |-> price, err |-> r.err]
    /\ UNCHANGED otherThanPrices

PDelete ==
    /\ \E model \in PriceModels :
        LET r == DeleteModelPrice(savedPrices, model) IN
        /\ savedPrices' = r.saved
        /\ priceRes' = [op |-> "delete", model |-> model, err |-> r.err,
                        deleted |-> r.deleted, before |-> savedPrices]
    /\ UNCHANGED otherThanPrices

PResolve ==
    /\ \E model \in PriceModels :
        LET r == ResolvePriceMicro(savedPrices, model) IN
        priceRes' = [op |-> "resolve", model |-> model, err |-> r.err,
                     price |-> r.price, source |-> r.source]
    /\ UNCHANGED savedPrices
    /\ UNCHANGED otherThanPrices

PricesNext == PUpsert \/ PDelete \/ PResolve

SpecPrices == PricesInit /\ [][PricesNext]_vars

\* The places a price can come from, in the order of their priority
PriceCandidates(saved, model) ==
    <<[from |-> saved, key |-> NormaliseModelKey(model), source |-> "saved"],
      [from |-> saved, key |-> StripThinkingVariant(NormaliseModelKey(model)), source |-> "saved"],
      [from |-> DefaultPrices, key |-> NormaliseModelKey(model), source |-> "default"],
      [from |-> DefaultPrices, key |-> StripThinkingVariant(NormaliseModelKey(model)), source |-> "default"]>>

\* The first candidate that exists decides; without one the price is missing
FirstThatExists(cands, res) ==
    LET there == {i \in 1..Len(cands) : cands[i].key \in DOMAIN cands[i].from} IN
    IF there = {}
    THEN res.source = "missing" /\ res.price = PriceMicroUSDPer1M(0, 0, 0)
    ELSE LET first == CHOOSE i \in there : \A j \in there : i <= j IN
         res.source = cands[first].source /\ res.price = cands[first].from[cands[first].key]

PriorityOrderHolds ==
    \A model \in PriceModels :
        NormaliseModelKey(model) # <<>> =>
            /\ ResolvePriceMicro(savedPrices, model).err = ""
            /\ FirstThatExists(PriceCandidates(savedPrices, model), ResolvePriceMicro(savedPrices, model))

AfterUpsertSaved ==
    (priceRes.op = "upsert" /\ priceRes.err = "") =>
        /\ ResolvePriceMicro(savedPrices, priceRes.model).source = "saved"
        /\ ResolvePriceMicro(savedPrices, priceRes.model).price = priceRes.price

\* C17 as stated: after DeleteModelPrice(m) the resolution of m is the
\* built-in default or missing.
C17_AfterDeleteDefaultOrMissing ==
    (priceRes.op = "delete" /\ priceRes.err = "") =>
        ResolvePriceMicro(savedPrices, priceRes.model).source \in {"default", "missing"}

\* C17: the resolution of a model is the first that exists of the saved
\* override on its key, the saved override on its base key, the built-in
\* default on its key and the built-in default on its base key, and missing
\* with zero rates without any; after a successful UpsertModelPrice(m, p) m
\* resolves to p from source saved; after DeleteModelPrice(m) m resolves as
\* it would without an override on its own key: to the saved override on the
\* base key, the default, or missing.
C17_PriceResolutionOrder ==
    /\ PriorityOrderHolds
    /\ AfterUpsertSaved
    /\ (priceRes.op = "delete" /\ priceRes.err = "") =>
        /\ NormaliseModelKey(priceRes.model) \notin DOMAIN savedPrices
        /\ FirstThatExists(SubSeq(PriceCandidates(savedPrices, priceRes.model), 2, 4),
                           ResolvePriceMicro(savedPrices, priceRes.model))
        /\ ResolvePriceMicro(savedPrices, priceRes.model).source = "saved" =>
                ResolvePriceMicro(savedPrices, priceRes.model).price
                    = savedPrices[StripThinkingVariant(NormaliseModelKey(priceRes.model))]

\* The override of a thinking variant was deleted while its base model has
\* one: the variant resolves to the base model's saved price.
C17_Witness ==
    /\ priceRes.op = "delete"
    /\ priceRes.err = ""
    /\ priceRes.deleted
    /\ NormaliseModelKey(priceRes.model) = <<"g", "p", "t", "-", "5", "-", "t", "h", "i", "n", "k", "i", "n", "g">>
    /\ <<"g", "p", "t", "-", "5">> \in DOMAIN savedPrices
    /\ NormaliseModelKey(claudeOpus45) \in DOMAIN savedPrices
    /\ ResolvePriceMicro(savedPrices, priceRes.model).source = "saved"
    /\ ResolvePriceMicro(savedPrices, claudeOpus45).source = "saved"
    /\ ResolvePriceMicro(savedPrices, <<"o", "3">>).source = "missing"

-----------------------------------------------------------------------------
(* The daily limit of a model and of its thinking variant.                 *)

claudeOpus46Thinking == claudeOpus46Prefix \o claudeThinkingSuffixLiteral

\* A limit L on the base model alone, and with a limit of 1 for its thinking
\* variant besides
ThinkingConfigs(L) ==
    { [nil |-> FALSE, policies |->
          <<Policy(TheAPIKey, "true", <<>>, claudeOpus46Prefix :> L, 0)>>],
      [nil |-> FALSE, policies |->
          <<Policy(TheAPIKey, "true", <<>>,
                   (claudeOpus46Prefix :> L) @@ (claudeOpus46Thinking :> 1), 0)>>] }

ThinkingInit ==
    /\ table = ensureSchema(NoRows)
    /\ limiterOpen = TRUE
    /\ clock = StartClock
    /\ epoch = 0
    /\ dailyLimit \in 1..MaxLimit
    /\ last = NoCall
    /\ hist = <<>>
    /\ refusedAt = <<>>
    /\ calls = 0
    /\ ConcIdle
    /\ cfg \in ThinkingConfigs(dailyLimit)
    /\ deps = DepsPresent
    /\ costs = <<>>
    /\ resp = <<>>
    /\ byLimitKey = <<>>
    /\ byModel = <<>>
    /\ ExecIdle

SpecThinking == ThinkingInit /\ [][MWNext]_vars

\* The counter row of the client for a model key today
CounterRow(modelKey) ==
    [api_key |-> TheAPIKey, model |-> modelKey, day |-> DayKeyChina(clock)]

\* The key a request for the base model or its thinking variant is to be
\* counted on: the variant's own key when it has a limit, else the base key
CountedOn(limits, requested) ==
    IF requested = claudeOpus46Thinking /\ claudeOpus46Thinking \in DOMAIN limits
    THEN claudeOpus46Thinking ELSE claudeOpus46Prefix

\* The request just handled consumed from the row it is to be counted on:
\* forwarded and the row one up while the row is below its limit, aborted
\* with 429 and no row touched once it is not
CountedOnItsRow(x, limits, row, rows, rowsAfter) ==
    /\ x.r.forwarded <=> RowCount(rows, row) < limits[row.model]
    /\ x.r.forwarded =>
        /\ RowCount(rowsAfter, row) = RowCount(rows, row) + 1
        /\ \A k \in DOMAIN rows : k # row => (k \in DOMAIN rowsAfter /\ rowsAfter[k] = rows[k])
        /\ DOMAIN rowsAfter = DOMAIN rows \cup {row}
    /\ ~x.r.forwarded =>
        /\ x.r.status = 429
        /\ x.r.msg = "daily model limit exceeded"
        /\ rowsAfter = rows

\* C18: a request with a body for the base model or for its thinking variant
\* is counted on the row keyed by the base model when the variant has no
\* limit, so no more than L of both together are forwarded in a day and no
\* row of the variant exists; when the variant has its own limit a request
\* for it is counted on the variant's row against that limit.
C18_ThinkingSharesBaseCounter ==
    /\ [][calls' = calls + 1 =>
            LET x == resp'[1]
                requested == NormaliseModelKey(GetModel(x.req.body))
                limits == cfg.policies[1].limits
            IN (/\ x.req.method \notin BodylessMethods
                /\ TrimSpace(x.req.apiKey) = TheAPIKey
                /\ requested \in {claudeOpus46Prefix, claudeOpus46Thinking})
               => CountedOnItsRow(x, limits, CounterRow(CountedOn(limits, requested)),
                                  table, table')]_vars
    /\ [](\A k \in DOMAIN table :
            /\ k.model \in DOMAIN cfg.policies[1].limits
            /\ table[k].count <= cfg.policies[1].limits[k.model])

\* With a limit of 2 on the base model alone, a request for the base model
\* and one for its thinking variant filled the base model's row, and a third
\* request, for the thinking variant, was aborted.
C18_Witness ==
    /\ Handled
    /\ DOMAIN cfg.policies[1].limits = {claudeOpus46Prefix}
    /\ dailyLimit = 2
    /\ calls = 3
    /\ NormaliseModelKey(GetModel(resp[1].req.body)) = claudeOpus46Thinking
    /\ resp[1].r.status = 429
    /\ RowCount(table, CounterRow(claudeOpus46Prefix)) = 2
    /\ byModel[<<resp[1].day, claudeOpus46Prefix>>].fwd = 1

\* With limits on both, the thinking variant's row is full while the base
\* model's row still takes requests.
ThinkingOwnRowReached ==
    /\ Handled
    /\ claudeOpus46Thinking \in DOMAIN cfg.policies[1].limits
    /\ dailyLimit = 2
    /\ RowCount(table, CounterRow(claudeOpus46Thinking)) = 1
    /\ RowCount(table, CounterRow(claudeOpus46Prefix)) = 1
    /\ resp[1].r.status = 429

-----------------------------------------------------------------------------
(* A request whose model cannot be resolved.                               *)

\* The requested model's name, its thinking suffix aside, begins with claude-
LooksLikeClaude(modelName) ==
    LET paren == Index(TrimSpace(modelName), <<"(">>)
        name == IF paren < 0 THEN TrimSpace(modelName) ELSE SubSeq(TrimSpace(modelName), 1, paren)
    IN /\ Len(name) >= 7
       /\ ToLower(SubSeq(name, 1, 7)) = <<"c", "l", "a", "u", "d", "e", "-">>

\* The resolution of the requested model failed and the request is past it:
\* with a Claude-looking model and an enabled failover to another model the
\* calls made went to the failover target; otherwise the resolution error
\* was returned and no call was made.
ResolutionFailureHandled(details, target, targetDetails) ==
    (xPc # "start" /\ ~details.ok) =>
        IF /\ LooksLikeClaude(xReq.modelName)
           /\ xReq.policy # <<>>
           /\ xReq.policy[1].enabled
           /\ target.target # xReq.modelName
        THEN /\ xCalls # <<>>
             /\ xCalls[1].model = targetDetails.model
             /\ xCalls[1].providers = targetDetails.providers
        ELSE /\ xPc = "done"
             /\ xCalls = <<>>
             /\ xResult = <<[ok |-> FALSE, err |-> details.err]>>

-----------------------------------------------------------------------------
(* Failover eligibility, status by status.                                 *)

\* The statuses an upstream error comes with, 0 for none
EligibilityStatuses == {0, 200, 400, 401, 402, 403, 404, 408, 429, 499, 500, 501, 502, 503, 504}

\* The errors: no text, plain texts with and without the markers in either
\* case, and JSON envelopes with a marker in error.message, in message
\* behind a blank error.message, and in message behind another error.message
EligibilityErrors ==
    { PlainError(0, <<>>),
      PlainError(0, <<"a", "u", "t", "h", "_", "u", "n", "a", "v", "a", "i", "l", "a", "b", "l", "e", ":", " ", "n", "o", " ", "a", "u", "t", "h", " ", "a", "v", "a", "i", "l", "a", "b", "l", "e">>),
      PlainError(0, <<"A", "U", "T", "H", "_", "N", "O", "T", "_", "F", "O", "U", "N", "D">>),
      PlainError(0, <<"N", "o", " ", "A", "u", "t", "h", " ", "A", "v", "a", "i", "l", "a", "b", "l", "e">>),
      PlainError(0, <<"n", "o", " ", "a", "u", "t", "h">>),
      PlainError(0, <<"u", "n", "k", "n", "o", "w", "n", " ", "p", "r", "o", "v", "i", "d", "e", "r", " ", "f", "o", "r", " ", "m", "o", "d", "e", "l", " ", "f", "o", "o">>),
      PlainError(0, <<"U", "n", "k", "n", "o", "w", "n", " ", "P", "r", "o", "v", "i", "d", "e", "r">>),
      PlainError(0, <<"m", "o", "d", "e", "l", " ", "o", "v", "e", "r", "l", "o", "a", "d", "e", "d">>),
      PlainError(0, <<"r", "a", "t", "e", " ", "l", "i", "m", "i", "t", "e", "d">>),
      EnvelopeError(0, <<"u", "n", "k", "n", "o", "w", "n", " ", "p", "r", "o", "v", "i", "d", "e", "r", " ", "f", "o", "r", " ", "m", "o", "d", "e", "l", " ", "x">>, <<>>),
      EnvelopeError(0, <<" ">>, <<"a", "u", "t", "h", "_", "n", "o", "t", "_", "f", "o", "u", "n", "d">>),
      EnvelopeError(0, <<"i", "n", "t", "e", "r", "n", "a", "l", " ", "e", "r", "r", "o", "r">>, <<"a", "u", "t", "h", "_", "u", "n", "a", "v", "a", "i", "l", "a", "b", "l", "e">>),
      PlainError(0, <<"A", "c", "c", "o", "u", "n", "t", " ", "S", "u", "s", "p", "e", "n", "d", "e", "d">>),
      PlainError(0, <<"a", "c", "c", "o", "u", "n", "t", " ", "n", "o", "t", " ", "f", "o", "u", "n", "d">>),
      PlainError(0, <<"u", "s", "e", "r", " ", "b", "a", "n", "n", "e", "d">>),
      PlainError(0, <<"i", "n", "v", "a", "l", "i", "d", " ", "T", "o", "k", "e", "n">>),
      PlainError(0, <<"o", "a", "u", "t", "h", " ", "e", "x", "p", "i", "r", "e", "d">>),
      PlainError(0, <<"b", "a", "d", " ", "c", "r", "e", "d", "e", "n", "t", "i", "a", "l", "s">>),
      PlainError(0, <<"s", "e", "s", "s", "i", "o", "n", " ", "e", "n", "d", "e", "d">>),
      PlainError(0, <<"l", "o", "g", "i", "n", " ", "r", "e", "q", "u", "i", "r", "e", "d">>),
      EnvelopeError(0, <<"m", "e", "s", "s", "a", "g", "e", "s", ":", " ", "f", "i", "e", "l", "d", " ", "r", "e", "q", "u", "i", "r", "e", "d">>, <<"a", "c", "c", "o", "u", "n", "t", " ", "d", "i", "s", "a", "b", "l", "e", "d">>) }

\* NewBaseAPIHandlers; an upstream error is at hand
EligibilityInit ==
    /\ RequestPathIdle
    /\ rw = <<>>
    /\ PoolIdle
    /\ usage = <<>>
    /\ usageLog = <<>>
    /\ uRes = <<>>
    /\ savedPrices = <<>>
    /\ priceRes = <<>>
    /\ fe \in [status : EligibilityStatuses, err : EligibilityErrors,
               done : {FALSE}, eligible : {FALSE}]
    /\ PureIdle

\* isClaudeFailoverEligible is asked
AskEligible ==
    /\ fe # <<>>
    /\ ~fe.done
    /\ fe' = [fe EXCEPT !.done = TRUE,
                        !.eligible = isClaudeFailoverEligible(fe.status, fe.err)]
    /\ UNCHANGED <<limVars, concVars, mwVars, exVars, stVars, rw, poolVars, storeVars, pureVars>>

EligibilityNext == AskEligible

SpecEligibility == EligibilityInit /\ [][EligibilityNext]_vars

\* The message of an error: of an envelope error.message, or message when
\* that is blank, else the text
MessageOf(err) ==
    IF err.json /\ \E i \in 1..Len(err.envError) : err.envError[i] # " " THEN err.envError
    ELSE IF err.json /\ \E i \in 1..Len(err.envMessage) : err.envMessage[i] # " " THEN err.envMessage
    ELSE err.raw

\* The message holds the marker somewhere, case aside
Mentions(message, marker) ==
    \E i \in 1..Len(message) :
        /\ i + Len(marker) - 1 <= Len(message)
        /\ \A j \in 1..Len(marker) : ToLowerChar(message[i + j - 1]) = marker[j]

\* C20: an error with status 401, 402, 403 or 429 is eligible whatever its
\* message; one with status 500 exactly when its message holds
\* auth_unavailable, auth_not_found or 'no auth available'; one with status
\* 502 exactly when its message holds both 'unknown provider' and 'model';
\* one with any status other than these and 400 never (the message being
\* that of the error envelope when there is one, case aside).
C20_EligibilityByStatus ==
    (fe # <<>> /\ fe.done) =>
        /\ fe.status \in {401, 402, 403, 429} => fe.eligible
        /\ fe.status = 500 =>
            (fe.eligible <=> \/ Mentions(MessageOf(fe.err), <<"a", "u", "t", "h", "_", "u", "n", "a", "v", "a", "i", "l", "a", "b", "l", "e">>)
                             \/ Mentions(MessageOf(fe.err), <<"a", "u", "t", "h", "_", "n", "o", "t", "_", "f", "o", "u", "n", "d">>)
                             \/ Mentions(MessageOf(fe.err), <<"n", "o", " ", "a", "u", "t", "h", " ", "a", "v", "a", "i", "l", "a", "b", "l", "e">>))
        /\ fe.status = 502 =>
            (fe.eligible <=> /\ Mentions(MessageOf(fe.err), <<"u", "n", "k", "n", "o", "w", "n", " ", "p", "r", "o", "v", "i", "d", "e", "r">>)
                             /\ Mentions(MessageOf(fe.err), <<"m", "o", "d", "e", "l">>))
        /\ fe.status \notin {400, 401, 402, 403, 429, 500, 502} => ~fe.eligible

\* A 500 whose envelope names auth_unavailable only behind another
\* error.message was asked about and found not eligible.
C20_Witness ==
    /\ fe # <<>>
    /\ fe.done
    /\ fe.status = 500
    /\ fe.err.json
    /\ Mentions(fe.err.raw, <<"a", "u", "t", "h", "_", "u", "n", "a", "v", "a", "i", "l", "a", "b", "l", "e">>)
    /\ ~fe.eligible

-----------------------------------------------------------------------------
(* A 400 from upstream: eligible for failover or surfaced.                 *)

\* The eligibility function on its own, and requests through the conductor
BadRequestInit == EligibilityInit \/ ExecInit

BadRequestNext == EligibilityNext \/ ExecNext

SpecBadRequest == BadRequestInit /\ [][BadRequestNext]_vars

MentionsAny(message, markers) == \E marker \in markers : Mentions(message, marker)

credentialMarkers == {<<"t", "o", "k", "e", "n">>, <<"o", "a", "u", "t", "h">>, <<"c", "r", "e", "d", "e", "n", "t", "i", "a", "l">>, <<"s", "e", "s", "s", "i", "o", "n">>, <<"l", "o", "g", "i", "n">>}

accountStates == {<<"d", "i", "s", "a", "b", "l", "e", "d">>, <<"s", "u", "s", "p", "e", "n", "d", "e", "d">>, <<"b", "a", "n", "n", "e", "d">>, <<"b", "l", "o", "c", "k", "e", "d">>}

\* C21 as stated: a 400 is eligible exactly when its message mentions an
\* account that is disabled, suspended, banned or blocked, or one of token,
\* oauth, credential, session, login.
C21_EligibleOnlyForAccountStates ==
    (fe # <<>> /\ fe.done /\ fe.status = 400) =>
        (fe.eligible <=>
            \/ Mentions(MessageOf(fe.err), <<"a", "c", "c", "o", "u", "n", "t">>) /\ MentionsAny(MessageOf(fe.err), accountStates)
            \/ MentionsAny(MessageOf(fe.err), credentialMarkers))

\* The first call of a finished request failed with a 400 that names none of
\* the markers: it was the only call and its error is what came back
SurfacedWithoutFailover ==
    (xReq # <<>> /\ xPc = "done" /\ xCalls # <<>>) =>
        LET out == xCalls[1].out IN
        (/\ ~out.ok
         /\ out.err.StatusCode = 400
         /\ ~MentionsAny(MessageOf(out.err.Error), credentialMarkers \cup {<<"a", "c", "c", "o", "u", "n", "t">>}))
        => Len(xCalls) = 1 /\ xResult = <<out>>

\* C21: a 400 is eligible for failover exactly when its message mentions
\* account (whatever is said of it), token, oauth, credential, session or
\* login, case aside; a request whose call fails with any other 400 gets
\* that error back and no failover call is made.
C21_BadRequestEligibility ==
    /\ (fe # <<>> /\ fe.done /\ fe.status = 400) =>
        (fe.eligible <=> MentionsAny(MessageOf(fe.err), credentialMarkers \cup {<<"a", "c", "c", "o", "u", "n", "t">>}))
    /\ SurfacedWithoutFailover

\* A 400 that names an account without calling it disabled, suspended,
\* banned or blocked was found eligible.
C21_Witness ==
    /\ fe # <<>>
    /\ fe.done
    /\ fe.status = 400
    /\ fe.eligible
    /\ Mentions(MessageOf(fe.err), <<"a", "c", "c", "o", "u", "n", "t">>)
    /\ ~MentionsAny(MessageOf(fe.err), accountStates \cup credentialMarkers)

\* A request under a policy with failover enabled had its call fail with a
\* schema error and got that error back.
SchemaErrorSurfaced ==
    /\ xReq # <<>>
    /\ xPc = "done"
    /\ Len(xCalls) = 1
    /\ xReq.policy # <<>>
    /\ xReq.policy[1].enabled
    /\ containsProvider(xCalls[1].providers, <<"c", "l", "a", "u", "d", "e">>)
    /\ xCalls[1].out.err.StatusCode = 400
    /\ Mentions(MessageOf(xCalls[1].out.err.Error), <<"f", "i", "e", "l", "d", " ", "r", "e", "q", "u", "i", "r", "e", "d">>)
    /\ xResult = <<xCalls[1].out>>

-----------------------------------------------------------------------------
(* Sanitising the client policies of a configuration.                      *)

MaxPolicies == 3

ModelFailoverRule(fromModel, targetModel) ==
    [from_model |-> fromModel, target_model |-> targetModel]

ProviderFailoverPolicy(enabled, targetModel, rules) ==
    [enabled |-> enabled, target_model |-> targetModel, rules |-> rules]

\* A client policy as the configuration file gives it
APIKeyPolicy(apiKey, allow46, excluded, limits, budget, failover) ==
    [api_key |-> apiKey, allow46 |-> allow46, excluded |-> excluded, limits |-> limits,
     budget |-> budget, failover |-> failover]

\* NormalizeExcludedModels: patterns trimmed and lowercased, blank ones and
\* repetitions dropped
RECURSIVE NormalizeExcludedModels(_)
NormalizeExcludedModels(models) ==
    IF models = <<>> THEN <<>>
    ELSE LET before == NormalizeExcludedModels(SubSeq(models, 1, Len(models) - 1))
             pattern == ToLower(TrimSpace(models[Len(models)]))
         IN IF pattern = <<>> \/ \E i \in 1..Len(before) : before[i] = pattern
            THEN before ELSE Append(before, pattern)

\* Lines 159-170: the rules trimmed, those without a pattern or a target dropped
RECURSIVE SanitizeRules(_)
SanitizeRules(rules) ==
    IF rules = <<>> THEN <<>>
    ELSE LET before == SanitizeRules(SubSeq(rules, 1, Len(rules) - 1))
             rule == ModelFailoverRule(TrimSpace(rules[Len(rules)].from_model),
                                       TrimSpace(rules[Len(rules)].target_model))
         IN IF rule.from_model = <<>> \/ rule.target_model = <<>>
            THEN before ELSE Append(before, rule)

\* Lines 172-189: the limits keyed by the trimmed lowercase model, blank keys
\* and limits not above zero dropped.  Two keys that normalise to one leave
\* the limit of whichever the map iteration visits last: `pick` says which.
NormalizedLimits(limits, pick) ==
    [m \in {ToLower(TrimSpace(k)) :
                k \in {x \in DOMAIN limits : ToLower(TrimSpace(x)) # <<>> /\ limits[x] > 0}} |->
        LET cands == {limits[k] : k \in {x \in DOMAIN limits :
                                            ToLower(TrimSpace(x)) = m /\ limits[x] > 0}}
        IN IF pick = "low" THEN CHOOSE l \in cands : \A o \in cands : l <= o
           ELSE CHOOSE l \in cands : \A o \in cands : l >= o]

\* Lines 149-193: one entry sanitised
SanitizeEntry(entry, pick) ==
    [entry EXCEPT !.api_key = TrimSpace(@),
                  !.excluded = NormalizeExcludedModels(@),
                  !.failover = ProviderFailoverPolicy(@.enabled, TrimSpace(@.target_model),
                                                      SanitizeRules(@.rules)),
                  !.limits = NormalizedLimits(@, pick),
                  !.budget = IF @ <= 0 THEN 0 ELSE @]

\* An entry joins the list where the first entry with its key stands, and
\* the later one is dropped
Place_firstWins(out, entry) ==
    IF \E j \in 1..Len(out) : out[j].api_key = entry.api_key
    THEN out
    ELSE Append(out, entry)

\* Lines 195-201: an entry replaces the prior entry with its key, or is appended
Place(out, entry) ==
    IF \E j \in 1..Len(out) : out[j].api_key = entry.api_key
    THEN [out EXCEPT ![CHOOSE j \in 1..Len(out) : out[j].api_key = entry.api_key] = entry]
    ELSE Append(out, entry)

RECURSIVE SanitizeLoop(_, _, _, _)
SanitizeLoop(policies, i, out, pick) ==
    IF i > Len(policies) THEN out
    ELSE IF TrimSpace(policies[i].api_key) = <<>>
    THEN SanitizeLoop(policies, i + 1, out, pick)
    ELSE SanitizeLoop(policies, i + 1, Place(out, SanitizeEntry(policies[i], pick)), pick)

\* (*Config).SanitizeAPIKeyPolicies
SanitizeAPIKeyPolicies(policies, pick) ==
    IF Len(policies) = 0 THEN policies ELSE SanitizeLoop(policies, 1, <<>>, pick)

\* Entries of a configuration file: untrimmed keys, one key twice, a blank
\* key; patterns in upper case, repeated and blank; limits on two spellings
\* of one model, on a blank model, of zero and below; budgets below zero;
\* rules with blanks
RawPolicies ==
    { APIKeyPolicy(<<" ", "k", " ">>, "false", <<<<" ", "G", "P", "T", "-", "*", " ">>, <<"g", "p", "t", "-", "*">>, <<" ">>>>,
                   (<<" ", "M", " ">> :> 2) @@ (<<"m">> :> 1) @@ (<<"x">> :> 0) @@ (<<" ">> :> 3), -1,
                   ProviderFailoverPolicy(TRUE, <<" ", "g", "p", "t", "-", "5", " ">>,
                       <<ModelFailoverRule(<<" ", "c", "l", "a", "u", "d", "e", "-", "*", " ">>, <<" ", "o", "3", " ">>), ModelFailoverRule(<<" ">>, <<"a">>),
                         ModelFailoverRule(<<"b">>, <<>>)>>)),
      APIKeyPolicy(<<"k">>, "true", <<>>, <<>>, 4, ProviderFailoverPolicy(FALSE, <<>>, <<>>)),
      APIKeyPolicy(<<"k">>, "unset", <<<<"*", "-", "6">>>>, <<"n">> :> -1, 0, ProviderFailoverPolicy(TRUE, <<>>, <<>>)),
      APIKeyPolicy(<<"Z">>, "true", <<<<"C", "l", "a", "u", "d", "e", "-", "*">>>>, <<"G", "p", "t", "-", "5", " ">> :> 1, 2,
                   ProviderFailoverPolicy(FALSE, <<>>, <<>>)),
      APIKeyPolicy(<<" ">>, "true", <<<<"*">>>>, <<"m">> :> 1, 1, ProviderFailoverPolicy(FALSE, <<>>, <<>>)) }

RawPolicyLists == UNION {[1..n -> RawPolicies] : n \in 0..MaxPolicies}

\* A configuration as loaded, not yet sanitised
SanitizeInit ==
    /\ RequestPathIdle
    /\ rw = <<>>
    /\ PoolIdle
    /\ usage = <<>>
    /\ usageLog = <<>>
    /\ uRes = <<>>
    /\ savedPrices = <<>>
    /\ priceRes = <<>>
    /\ fe = <<>>
    /\ san \in [input : RawPolicyLists, out : {<<>>}, before : {<<>>}, runs : {0}]
    /\ ft = <<>>
    /\ eb = <<>>
    /\ cm = <<>>
    /\ ka = <<>>

\* SanitizeAPIKeyPolicies runs on the configuration, as on every reload
Sanitize ==
    /\ san # <<>>
    /\ san.runs < 2
    /\ \E pick \in {"low", "high"} :
        LET policies == IF san.runs = 0 THEN san.input ELSE san.out IN
        san' = [san EXCEPT !.runs = @ + 1, !.before = policies,
                           !.out = SanitizeAPIKeyPolicies(policies, pick)]
    /\ UNCHANGED <<limVars, concVars, mwVars, exVars, stVars, rw, poolVars, storeVars, fe, ft, eb, cm, ka>>

SanitizeNext == Sanitize

SpecSanitize == SanitizeInit /\ [][SanitizeNext]_vars

\* No space at either end, and no capital letter
Trimmed(s) == s = <<>> \/ (s[1] # " " /\ s[Len(s)] # " ")

Lowercase(s) == \A i \in 1..Len(s) : \A u \in 1..Len(upperChars) : s[i] # upperChars[u]

\* The positions of the input entries with the given client key
EntriesWithKey(input, key) == {j \in 1..Len(input) : TrimSpace(input[j].api_key) = key}

\* C22: after SanitizeAPIKeyPolicies no policy has an empty client key, the
\* client keys are trimmed and pairwise distinct, every daily limit is above
\* zero under a trimmed lowercase non-empty model key, every excluded-model
\* pattern is lowercase and every budget is at least zero; of the input
\* entries with one client key the last survives, and every non-blank input
\* key has its entry; sanitising the result again changes nothing.
C22_SanitizedPolicies ==
    (san # <<>> /\ san.runs >= 1) =>
        /\ \A i \in 1..Len(san.out) :
            LET p == san.out[i] IN
            /\ p.api_key # <<>>
            /\ Trimmed(p.api_key)
            /\ \A j \in 1..Len(san.out) : j # i => san.out[j].api_key # p.api_key
            /\ \A m \in DOMAIN p.limits :
                p.limits[m] > 0 /\ m # <<>> /\ Trimmed(m) /\ Lowercase(m)
            /\ \A e \in 1..Len(p.excluded) : Lowercase(p.excluded[e])
            /\ p.budget >= 0
        /\ san.runs = 1 =>
            /\ \A i \in 1..Len(san.out) :
                LET with == EntriesWithKey(san.input, san.out[i].api_key) IN
                /\ with # {}
                /\ san.out[i].allow46 = san.input[CHOOSE j \in with : \A o \in with : j >= o].allow46
            /\ \A j \in 1..Len(san.input) :
                TrimSpace(san.input[j].api_key) # <<>> =>
                    \E i \in 1..Len(san.out) : san.out[i].api_key = TrimSpace(san.input[j].api_key)
        /\ san.runs = 2 => san.out = san.before

\* Three entries came in under one client key, the first with limits on two
\* spellings of a model; the last of them is what is left, and a second
\* sanitising left it as it was.
C22_Witness ==
    /\ san # <<>>
    /\ san.runs = 2
    /\ Len(san.input) = 3
    /\ san.input[1].allow46 = "false"
    /\ san.input[2].allow46 = "true"
    /\ san.input[3].allow46 = "unset"
    /\ Len(san.out) = 1
    /\ san.out[1].allow46 = "unset"
    /\ san.out[1].limits = <<>>
    /\ san.out = san.before

-----------------------------------------------------------------------------
(* The failover target of a client policy for a requested model.           *)

MaxRules == 2

\* Lines 97-110: the target of the first rule that matches, <<>> without one
RECURSIVE FirstRuleTarget(_, _, _)
FirstRuleTarget(rules, i, requestKey) ==
    IF i > Len(rules) THEN <<>>
    ELSE LET from == ToLower(TrimSpace(rules[i].from_model))
             target == TrimSpace(rules[i].target_model)
         IN IF from = <<>> \/ ~MatchWildcard(from, requestKey) \/ target = <<>>
            THEN FirstRuleTarget(rules, i + 1, requestKey)
            ELSE target

\* A resolution that never looks at the rules
ClaudeFailoverTargetModelFor_ignoresRules(policy, requestedModel) ==
    ClaudeFailoverTargetModel(policy)

\* (*APIKeyPolicy).ClaudeFailoverTargetModelFor; the empty sequence is a nil policy
ClaudeFailoverTargetModelFor(policy, requestedModel) ==
    IF policy = <<>> THEN [target |-> <<>>, enabled |-> FALSE]
    ELSE IF ~policy[1].enabled THEN [target |-> <<>>, enabled |-> FALSE]
    ELSE LET requestKey == NormaliseModelKey(requestedModel)
             target == IF requestKey # <<>> /\ Len(policy[1].rules) > 0
                       THEN FirstRuleTarget(policy[1].rules, 1, requestKey) ELSE <<>>
         IN IF target # <<>> THEN [target |-> target, enabled |-> TRUE]
            ELSE ClaudeFailoverTargetModel(policy)

FailoverRules ==
    { ModelFailoverRule(<<" ", "C", "l", "a", "u", "d", "e", "-", "O", "p", "u", "s", "-", "*", " ">>, <<" ", "o", "3", " ">>),
      ModelFailoverRule(<<"c", "l", "a", "u", "d", "e", "-", "*">>, <<"g", "p", "t", "-", "5">>),
      ModelFailoverRule(<<" ">>, <<"a">>),
      ModelFailoverRule(<<"c", "l", "a", "u", "d", "e", "-", "o", "p", "u", "s", "-", "4", "-", "6">>, <<" ">>),
      ModelFailoverRule(<<"*">>, <<"l", "a", "s", "t">>) }

FailoverRuleLists == UNION {[1..n -> FailoverRules] : n \in 0..MaxRules}

RuledPolicies ==
    {<<>>} \cup
    { <<ProviderFailoverPolicy(e, t, r)>> :
        e \in BOOLEAN, t \in {<<>>, <<" ", "g", "p", "t", "-", "5", ".", "1", " ">>}, r \in FailoverRuleLists }

TargetRequests ==
    { <<"c", "l", "a", "u", "d", "e", "-", "o", "p", "u", "s", "-", "4", "-", "6">>, <<" ", "C", "l", "a", "u", "d", "e", "-", "O", "p", "u", "s", "-", "4", "-", "6", "(", "h", "i", "g", "h", ")", " ">>, <<"c", "l", "a", "u", "d", "e", "-", "s", "o", "n", "n", "e", "t", "-", "4">>, <<"g", "p", "t", "-", "5">>, <<>>, <<" ">> }

\* A client policy and a requested model, the target not yet resolved
TargetInit ==
    /\ RequestPathIdle
    /\ rw = <<>>
    /\ PoolIdle
    /\ usage = <<>>
    /\ usageLog = <<>>
    /\ uRes = <<>>
    /\ savedPrices = <<>>
    /\ priceRes = <<>>
    /\ fe = <<>>
    /\ san = <<>>
    /\ ft \in [policy : RuledPolicies, requestedModel : TargetRequests,
               res : {<<>>}, done : {FALSE}]
    /\ eb = <<>>
    /\ cm = <<>>
    /\ ka = <<>>

ResolveTarget ==
    /\ ft # <<>>
    /\ ~ft.done
    /\ ft' = [ft EXCEPT !.done = TRUE,
                        !.res = ClaudeFailoverTargetModelFor(ft.policy, ft.requestedModel)]
    /\ UNCHANGED <<limVars, concVars, mwVars, exVars, stVars, rw, poolVars, storeVars, fe, san, eb, cm, ka>>

TargetNext == ResolveTarget

SpecTarget == TargetInit /\ [][TargetNext]_vars

\* The rules of the block that apply to the requested model, by position
ApplicableRules(block, requestedModel) ==
    {i \in 1..Len(block.rules) :
        /\ TrimSpace(block.rules[i].from_model) # <<>>
        /\ TrimSpace(block.rules[i].target_model) # <<>>
        /\ MatchWildcard(block.rules[i].from_model, NormaliseModelKey(requestedModel))}

\* C23: the failover target resolved for a requested model is (none,
\* disabled) when Claude failover is disabled or there is no policy; when it
\* is enabled it is the target of the first rule, in configured order, whose
\* non-empty from-model pattern wildcard-matches the canonical requested
\* model and whose target is non-empty; when no rule matches it is the
\* default target model of the block.
C23_TargetForRequestedModel ==
    (ft # <<>> /\ ft.done) =>
        IF ft.policy = <<>> \/ ~ft.policy[1].enabled
        THEN ft.res = [target |-> <<>>, enabled |-> FALSE]
        ELSE LET rules == ApplicableRules(ft.policy[1], ft.requestedModel) IN
             /\ ft.res.enabled
             /\ rules # {} =>
                  ft.res.target =
                    TrimSpace(ft.policy[1].rules[CHOOSE i \in rules : \A o \in rules : i <= o].target_model)
             /\ rules = {} =>
                  ft.res.target = (IF TrimSpace(ft.policy[1].target_model) = <<>>
                                   THEN defaultClaudeTargetModel
                                   ELSE TrimSpace(ft.policy[1].target_model))

\* Two rules match the requested model and the first one's target, which is
\* not the default target, was returned.
C23_Witness ==
    /\ ft # <<>>
    /\ ft.done
    /\ ft.policy # <<>>
    /\ ft.policy[1].enabled
    /\ ft.requestedModel = <<" ", "C", "l", "a", "u", "d", "e", "-", "O", "p", "u", "s", "-", "4", "-", "6", "(", "h", "i", "g", "h", ")", " ">>
    /\ Cardinality(ApplicableRules(ft.policy[1], ft.requestedModel)) = 2
    /\ ft.policy[1].rules[1].target_model = <<"g", "p", "t", "-", "5">>
    /\ ft.res = [target |-> <<"g", "p", "t", "-", "5">>, enabled |-> TRUE]

-----------------------------------------------------------------------------
(* The error envelope: BuildErrorResponseBody.                             *)

\* http.StatusText for the statuses that occur; "" for a status without one
StatusText(status) ==
    CASE status = 200 -> <<"O", "K">>
      [] status = 400 -> <<"B", "a", "d", " ", "R", "e", "q", "u", "e", "s", "t">>
      [] status = 401 -> <<"U", "n", "a", "u", "t", "h", "o", "r", "i", "z", "e", "d">>
      [] status = 402 -> <<"P", "a", "y", "m", "e", "n", "t", " ", "R", "e", "q", "u", "i", "r", "e", "d">>
      [] status = 403 -> <<"F", "o", "r", "b", "i", "d", "d", "e", "n">>
      [] status = 404 -> <<"N", "o", "t", " ", "F", "o", "u", "n", "d">>
      [] status = 408 -> <<"R", "e", "q", "u", "e", "s", "t", " ", "T", "i", "m", "e", "o", "u", "t">>
      [] status = 429 -> <<"T", "o", "o", " ", "M", "a", "n", "y", " ", "R", "e", "q", "u", "e", "s", "t", "s">>
      [] status = 500 -> <<"I", "n", "t", "e", "r", "n", "a", "l", " ", "S", "e", "r", "v", "e", "r", " ", "E", "r", "r", "o", "r">>
      [] status = 502 -> <<"B", "a", "d", " ", "G", "a", "t", "e", "w", "a", "y">>
      [] status = 503 -> <<"S", "e", "r", "v", "i", "c", "e", " ", "U", "n", "a", "v", "a", "i", "l", "a", "b", "l", "e">>
      [] OTHER -> <<>>

IsJSONNumber(s) ==
    /\ s # <<>>
    /\ \A i \in 1..Len(s) : s[i] \in {"0", "1", "2", "3", "4", "5", "6", "7", "8", "9"}
    /\ Len(s) > 1 => s[1] # "0"

IsJSONString(s) ==
    /\ Len(s) >= 2
    /\ s[1] = "\""
    /\ s[Len(s)] = "\""
    /\ \A i \in 2..(Len(s) - 1) : s[i] \notin {"\"", "\\"}

\* json.Valid, for texts without white space inside: a literal, a number, a
\* string without escapes, an array of one value or none, an object of one
\* member or none
RECURSIVE jsonValid(_)
jsonValid(s) ==
    \/ s \in {<<"t", "r", "u", "e">>, <<"f", "a", "l", "s", "e">>, <<"n", "u", "l", "l">>, <<"{", "}">>, <<"[", "]">>}
    \/ IsJSONNumber(s)
    \/ IsJSONString(s)
    \/ /\ Len(s) > 2
       /\ s[1] = "["
       /\ s[Len(s)] = "]"
       /\ jsonValid(SubSeq(s, 2, Len(s) - 1))
    \/ /\ Len(s) > 2
       /\ s[1] = "{"
       /\ s[Len(s)] = "}"
       /\ \E c \in 2..(Len(s) - 1) :
            /\ s[c] = ":"
            /\ IsJSONString(SubSeq(s, 2, c - 1))
            /\ jsonValid(SubSeq(s, c + 1, Len(s) - 1))

\* A string as json.Marshal writes it: quotes and backslashes escaped
RECURSIVE jsonEscape(_)
jsonEscape(s) ==
    IF s = <<>> THEN <<>>
    ELSE (IF s[1] \in {"\"", "\\"} THEN <<"\\", s[1]>> ELSE <<s[1]>>) \o jsonEscape(Tail(s))

jsonQuote(s) == <<"\"">> \o jsonEscape(s) \o <<"\"">>

\* json.Marshal(ErrorResponse{...}): the code is left out when it is empty
MarshalErrorResponse(message, errType, code) ==
    <<"{", "\"", "e", "r", "r", "o", "r", "\"", ":", "{", "\"", "m", "e", "s", "s", "a", "g", "e", "\"", ":">> \o jsonQuote(message) \o <<",", "\"", "t", "y", "p", "e", "\"", ":">> \o jsonQuote(errType)
        \o (IF code = <<>> THEN <<>> ELSE <<",", "\"", "c", "o", "d", "e", "\"", ":">> \o jsonQuote(code)) \o <<"}", "}">>

\* An envelope built even around a text that is JSON already
BuildErrorResponseBody_alwaysWraps(status, errText) ==
    MarshalErrorResponse(errText, <<"i", "n", "v", "a", "l", "i", "d", "_", "r", "e", "q", "u", "e", "s", "t", "_", "e", "r", "r", "o", "r">>, <<>>)

BuildErrorResponseBody(status, errText) ==
    LET st == IF status <= 0 THEN 500 ELSE status
        text == IF TrimSpace(errText) = <<>> THEN StatusText(st) ELSE errText
        trimmed == TrimSpace(text)
    IN
    IF trimmed # <<>> /\ jsonValid(trimmed) THEN trimmed
    ELSE IF st = 401 THEN MarshalErrorResponse(text, <<"a", "u", "t", "h", "e", "n", "t", "i", "c", "a", "t", "i", "o", "n", "_", "e", "r", "r", "o", "r">>, <<"i", "n", "v", "a", "l", "i", "d", "_", "a", "p", "i", "_", "k", "e", "y">>)
    ELSE IF st = 403 THEN MarshalErrorResponse(text, <<"p", "e", "r", "m", "i", "s", "s", "i", "o", "n", "_", "e", "r", "r", "o", "r">>, <<"i", "n", "s", "u", "f", "f", "i", "c", "i", "e", "n", "t", "_", "q", "u", "o", "t", "a">>)
    ELSE IF st = 429 THEN MarshalErrorResponse(text, <<"r", "a", "t", "e", "_", "l", "i", "m", "i", "t", "_", "e", "r", "r", "o", "r">>, <<"r", "a", "t", "e", "_", "l", "i", "m", "i", "t", "_", "e", "x", "c", "e", "e", "d", "e", "d">>)
    ELSE IF st = 404 THEN MarshalErrorResponse(text, <<"i", "n", "v", "a", "l", "i", "d", "_", "r", "e", "q", "u", "e", "s", "t", "_", "e", "r", "r", "o", "r">>, <<"m", "o", "d", "e", "l", "_", "n", "o", "t", "_", "f", "o", "u", "n", "d">>)
    ELSE IF st >= 500 THEN MarshalErrorResponse(text, <<"s", "e", "r", "v", "e", "r", "_", "e", "r", "r", "o", "r">>, <<"i", "n", "t", "e", "r", "n", "a", "l", "_", "s", "e", "r", "v", "e", "r", "_", "e", "r", "r", "o", "r">>)
    ELSE MarshalErrorResponse(text, <<"i", "n", "v", "a", "l", "i", "d", "_", "r", "e", "q", "u", "e", "s", "t", "_", "e", "r", "r", "o", "r">>, <<>>)

EnvelopeStatuses == {-1, 0, 200, 400, 401, 402, 403, 404, 408, 429, 499, 500, 502, 503, 599}

\* Error texts, each with whether it is a JSON text
EnvelopeTexts ==
    { [text |-> <<>>, json |-> FALSE],
      [text |-> <<" ">>, json |-> FALSE],
      [text |-> <<"b", "o", "o", "m">>, json |-> FALSE],
      [text |-> <<" ", "n", "o", " ", "\"", "a", "u", "t", "h", "\"", " ", "a", "v", "a", "i", "l", "a", "b", "l", "e", " ">>, json |-> FALSE],
      [text |-> <<"{", "\"", "e", "r", "r", "o", "r", "\"", ":">>, json |-> FALSE],
      [text |-> <<"{", "b", "a", "d", "}">>, json |-> FALSE],
      [text |-> <<"\"", "o", "p", "e", "n">>, json |-> FALSE],
      [text |-> <<"0", "0", "7">>, json |-> FALSE],
      [text |-> <<" ", "{", "\"", "e", "r", "r", "o", "r", "\"", ":", "{", "\"", "m", "e", "s", "s", "a", "g", "e", "\"", ":", "\"", "u", "p", "s", "t", "r", "e", "a", "m", "\"", "}", "}", " ">>, json |-> TRUE],
      [text |-> <<"{", "\"", "m", "e", "s", "s", "a", "g", "e", "\"", ":", "\"", "m", "\"", "}">>, json |-> TRUE],
      [text |-> <<"[", "\"", "x", "\"", "]">>, json |-> TRUE],
      [text |-> <<" ", "\"", "q", "u", "o", "t", "e", "d", "\"", " ">>, json |-> TRUE],
      [text |-> <<"4", "2", "9">>, json |-> TRUE],
      [text |-> <<"n", "u", "l", "l">>, json |-> TRUE] }

\* A status and an error text, the body not yet built
EnvelopeInit ==
    /\ RequestPathIdle
    /\ rw = <<>>
    /\ PoolIdle
    /\ usage = <<>>
    /\ usageLog = <<>>
    /\ uRes = <<>>
    /\ savedPrices = <<>>
    /\ priceRes = <<>>
    /\ fe = <<>>
    /\ san = <<>>
    /\ ft = <<>>
    /\ eb \in [status : EnvelopeStatuses, err : EnvelopeTexts, body : {<<>>}, done : {FALSE}]
    /\ cm = <<>>
    /\ ka = <<>>

BuildBody ==
    /\ eb # <<>>
    /\ ~eb.done
    /\ eb' = [eb EXCEPT !.done = TRUE, !.body = BuildErrorResponseBody(eb.status, eb.err.text)]
    /\ UNCHANGED <<limVars, concVars, mwVars, exVars, stVars, rw, poolVars, storeVars, fe, san, ft, cm, ka>>

EnvelopeNext == BuildBody

SpecEnvelope == EnvelopeInit /\ [][EnvelopeNext]_vars

\* The body names this type and ends with this code
HasTypeAndCode(body, errType, code) ==
    /\ Contains(body, <<",", "\"", "t", "y", "p", "e", "\"", ":", "\"">> \o errType \o <<"\"", ",">>)
    /\ HasSuffix(body, <<",", "\"", "c", "o", "d", "e", "\"", ":", "\"">> \o code \o <<"\"", "}", "}">>)

\* C24: the envelope built for an error text that is not JSON has its type
\* and code from the HTTP status: 401 authentication_error/invalid_api_key,
\* 403 permission_error/insufficient_quota, 404
\* invalid_request_error/model_not_found, 429
\* rate_limit_error/rate_limit_exceeded, 500 and above
\* server_error/internal_server_error; an error text that is valid JSON is
\* returned trimmed and otherwise unchanged, not wrapped.
C24_EnvelopeTypeAndCode ==
    (eb # <<>> /\ eb.done) =>
        IF eb.err.json THEN eb.body = TrimSpace(eb.err.text)
        ELSE /\ HasPrefix(eb.body, <<"{", "\"", "e", "r", "r", "o", "r", "\"", ":", "{", "\"", "m", "e", "s", "s", "a", "g", "e", "\"", ":", "\"">>)
             /\ eb.status = 401 => HasTypeAndCode(eb.body, <<"a", "u", "t", "h", "e", "n", "t", "i", "c", "a", "t", "i", "o", "n", "_", "e", "r", "r", "o", "r">>, <<"i", "n", "v", "a", "l", "i", "d", "_", "a", "p", "i", "_", "k", "e", "y">>)
             /\ eb.status = 403 => HasTypeAndCode(eb.body, <<"p", "e", "r", "m", "i", "s", "s", "i", "o", "n", "_", "e", "r", "r", "o", "r">>, <<"i", "n", "s", "u", "f", "f", "i", "c", "i", "e", "n", "t", "_", "q", "u", "o", "t", "a">>)
             /\ eb.status = 404 => HasTypeAndCode(eb.body, <<"i", "n", "v", "a", "l", "i", "d", "_", "r", "e", "q", "u", "e", "s", "t", "_", "e", "r", "r", "o", "r">>, <<"m", "o", "d", "e", "l", "_", "n", "o", "t", "_", "f", "o", "u", "n", "d">>)
             /\ eb.status = 429 => HasTypeAndCode(eb.body, <<"r", "a", "t", "e", "_", "l", "i", "m", "i", "t", "_", "e", "r", "r", "o", "r">>, <<"r", "a", "t", "e", "_", "l", "i", "m", "i", "t", "_", "e", "x", "c", "e", "e", "d", "e", "d">>)
             /\ eb.status >= 500 => HasTypeAndCode(eb.body, <<"s", "e", "r", "v", "e", "r", "_", "e", "r", "r", "o", "r">>, <<"i", "n", "t", "e", "r", "n", "a", "l", "_", "s", "e", "r", "v", "e", "r", "_", "e", "r", "r", "o", "r">>)

\* A plain text came with status 429 and was wrapped as a rate-limit error.
C24_Witness ==
    /\ eb # <<>>
    /\ eb.done
    /\ eb.status = 429
    /\ eb.err.text = <<"b", "o", "o", "m">>
    /\ eb.body = <<"{", "\"", "e", "r", "r", "o", "r", "\"", ":", "{", "\"", "m", "e", "s", "s", "a", "g", "e", "\"", ":", "\"", "b", "o", "o", "m", "\"", ",", "\"", "t", "y", "p", "e", "\"", ":", "\"", "r", "a", "t", "e", "_", "l", "i", "m", "i", "t", "_", "e", "r", "r", "o", "r", "\"", ",", "\"", "c", "o", "d", "e", "\"", ":", "\"", "r", "a", "t", "e", "_", "l", "i", "m", "i", "t", "_", "e", "x", "c", "e", "e", "d", "e", "d", "\"", "}", "}">>

\* An upstream JSON error came back as it was, without the surrounding space
JSONPassedThrough ==
    /\ eb # <<>>
    /\ eb.done
    /\ eb.status = 401
    /\ eb.body = <<"{", "\"", "e", "r", "r", "o", "r", "\"", ":", "{", "\"", "m", "e", "s", "s", "a", "g", "e", "\"", ":", "\"", "u", "p", "s", "t", "r", "e", "a", "m", "\"", "}", "}">>

-----------------------------------------------------------------------------
(* The failover and the bootstrap retries of one streaming request.        *)

\* The positions in sCalls of the execStream calls of one kind
CallsOfKind(kind) == {i \in 1..Len(sCalls) : sCalls[i].kind = kind}

\* The request's model did not resolve and the failover target went out in
\* its place (lines 811-836)
ResolutionFailover ==
    /\ sCalls # <<>>
    /\ ~getRequestDetails(sReq.registry, sReq.modelName).ok

\* The executions started against the failover target over the request
FailoverExecutions ==
    (IF ResolutionFailover THEN 1 ELSE 0) + Cardinality(CallsOfKind("failover"))

\* The error chunk that ended the stream of the call before sCalls[i]: what
\* a retry at position i answers
ErrorBefore(i) ==
    (CHOOSE c \in 1..Len(sSeen) : sSeen[c].stream = i - 1 /\ sSeen[c].Err # <<>>)

\* C25: over the whole life of one streaming request (the failover of a
\* failed model resolution, the failover of a first call that fails at once
\* and the failover before the first byte inside the stream loop taken
\* together) at most one execution against the failover target is started.
C25_FailoverOneShot ==
    sReq # <<>> => FailoverExecutions <= 1

\* The first stream broke before any payload and the failover target took
\* over; its stream broke as well, with an error as eligible as the first,
\* and the request ended with that error and no second failover.
C25_Witness ==
    /\ sReq # <<>>
    /\ sPc = "closed"
    /\ Len(sCalls) = 2
    /\ sCalls[2].kind = "failover"
    /\ Len(sSeen) = 2
    /\ sSeen[1].Err = <<PlainError(429, <<"r", "a", "t", "e">>)>>
    /\ sSeen[2].Err = <<PlainError(429, <<"r", "a", "t", "e">>)>>
    /\ Len(sOut.errs) = 1

\* The configured streaming bootstrap-retries value: 0 when unset or negative
ConfiguredRetries ==
    IF sReq.sdkCfg = <<>> THEN 0
    ELSE IF sReq.sdkCfg[1] < 0 THEN 0
    ELSE sReq.sdkCfg[1]

HasAuthMarker(err) ==
    \/ Mentions(err.raw, <<"a", "u", "t", "h", "_", "u", "n", "a", "v", "a", "i", "l", "a", "b", "l", "e">>)
    \/ Mentions(err.raw, <<"a", "u", "t", "h", "_", "n", "o", "t", "_", "f", "o", "u", "n", "d">>)
    \/ Mentions(err.raw, <<"n", "o", " ", "a", "u", "t", "h", " ", "a", "v", "a", "i", "l", "a", "b", "l", "e">>)

\* A transient upstream error: a timeout, or a 5xx without an auth marker
Transient(err) ==
    \/ err.code = 0
    \/ err.code = 408
    \/ err.code >= 500 /\ ~HasAuthMarker(err)

-----------------------------------------------------------------------------
(* The conductor under client policies whose failover block has rules.     *)

\* A non-streaming request of a client whose failover block may carry rules
RuledInit ==
    /\ PolicyIdle
    /\ StreamIdle
    /\ xReq \in [modelName : RequestedModels, policy : RuledPolicies, registry : Registries]
    /\ xPc = "start"
    /\ xCur = <<>>
    /\ xCalls = <<>>
    /\ xResult = <<>>

SpecRuled == RuledInit /\ [][ExecNext]_vars

\* C28: when the conductor fails a request over, the model of the failover
\* call is the target the policy's failover block resolves for the requested
\* model: the target of the first rule whose from-model pattern matches it,
\* and the default target only when no rule matches.
C28_FailoverUsesRuleTarget ==
    \A i \in 1..Len(xCalls) :
        xCalls[i].kind = "failover" =>
            xCalls[i].model =
                getRequestDetails(xReq.registry,
                                  ClaudeFailoverTargetModelFor(xReq.policy, xReq.modelName).target).model

\* A rule sends every Claude model to gpt-5, the block's own target is
\* gpt-5.1, and the failover call of a claude-opus-4-6 request went out.
RuleMatchedAtFailover ==
    /\ Len(xCalls) = 2
    /\ xCalls[2].kind = "failover"
    /\ xReq.modelName = <<"c", "l", "a", "u", "d", "e", "-", "o", "p", "u", "s", "-", "4", "-", "6">>
    /\ ClaudeFailoverTargetModelFor(xReq.policy, xReq.modelName).target = <<"g", "p", "t", "-", "5">>
    /\ ClaudeFailoverTargetModel(xReq.policy).target = <<"g", "p", "t", "-", "5", ".", "1">>

-----------------------------------------------------------------------------
(* The credential pool and a client-caused error.                          *)

\* C29: when an attempt of a request fails with a 400 whose message carries
\* no auth, account or quota marker (a schema error), that attempt is the
\* request's last, the request fails with that very error, and the
\* credential is not cooling down afterwards: the next request for the model
\* can use it again.
C29_SchemaErrorAbortsTraversal ==
    \A k \in 1..Len(pLog) :
        \A i \in 1..Len(pLog[k].attempts) :
            pAuths[pLog[k].attempts[i]] = "schema" =>
                /\ i = Len(pLog[k].attempts)
                /\ ~pLog[k].ok
                /\ pLog[k].err = <<AuthAnswers.schema>>
                /\ <<pLog[k].attempts[i], pLog[k].model>> \notin pLog[k].coolAtEnd
                /\ (k < Len(pLog) /\ pLog[k + 1].model = pLog[k].model) =>
                     \E u \in 1..Len(UsableAtStart(PoolAuths, pLog[k + 1].coolAtStart, pLog[k].model)) :
                        UsableAtStart(PoolAuths, pLog[k + 1].coolAtStart, pLog[k].model)[u]
                            = pLog[k].attempts[i]

\* a is disabled, b answers a schema error, c works: the first request went
\* a, b and failed with b's error without trying c; the second, for the same
\* model with a cooling down, went to b again.
C29_Witness ==
    /\ Len(pLog) = 2
    /\ pAuths = [a |-> "disabled", b |-> "schema", c |-> "ok"]
    /\ pLog[1].attempts = <<"a", "b">>
    /\ ~pLog[1].ok
    /\ pLog[1].err = <<AuthAnswers.schema>>
    /\ pLog[2].model = pLog[1].model
    /\ pLog[2].coolAtStart = {<<"a", pLog[1].model>>}
    /\ pLog[2].attempts = <<"b">>
    /\ ~pLog[2].ok

-----------------------------------------------------------------------------
(* The daily limit of a client that may not use claude-opus-4-6.           *)

\* allow-claude-opus-4-6 is false; a limit of 1 on claude-opus-4-6 and a
\* limit L on claude-opus-4-5-20251101, each alone and both together
DowngradeConfigs(L) ==
    { [nil |-> FALSE, policies |->
          <<Policy(TheAPIKey, "false", <<>>,
                   (claudeOpus46Prefix :> 1) @@ (claudeOpus45FallbackPrefix :> L), 0)>>],
      [nil |-> FALSE, policies |->
          <<Policy(TheAPIKey, "false", <<>>, claudeOpus46Prefix :> 1, 0)>>],
      [nil |-> FALSE, policies |->
          <<Policy(TheAPIKey, "false", <<>>, claudeOpus45FallbackPrefix :> L, 0)>>] }

DowngradeInit ==
    /\ table = ensureSchema(NoRows)
    /\ limiterOpen = TRUE
    /\ clock = StartClock
    /\ epoch = 0
    /\ dailyLimit \in 1..MaxLimit
    /\ last = NoCall
    /\ hist = <<>>
    /\ refusedAt = <<>>
    /\ calls = 0
    /\ ConcIdle
    /\ cfg \in DowngradeConfigs(dailyLimit)
    /\ deps = DepsPresent
    /\ costs = <<>>
    /\ resp = <<>>
    /\ byLimitKey = <<>>
    /\ byModel = <<>>
    /\ ExecIdle

SpecDowngrade == DowngradeInit /\ [][MWNext]_vars

\* C30: under a policy that forbids claude-opus-4-6, a request with a body
\* for claude-opus-4-6 (or its thinking variant) is counted on the row of
\* claude-opus-4-5-20251101 against the limit configured for that model, and
\* is forwarded with no row touched when there is no such limit; a limit
\* configured for claude-opus-4-6 neither refuses the request nor is consumed:
\* no row of claude-opus-4-6 ever exists.
C30_LimitOnDowngradedModel ==
    /\ [][calls' = calls + 1 =>
            LET x == resp'[1]
                requested == NormaliseModelKey(GetModel(x.req.body))
                limits == cfg.policies[1].limits
            IN (/\ x.req.method \notin BodylessMethods
                /\ TrimSpace(x.req.apiKey) = TheAPIKey
                /\ requested \in {claudeOpus46Prefix, claudeOpus46Thinking})
               => IF claudeOpus45FallbackPrefix \in DOMAIN limits
                  THEN CountedOnItsRow(x, limits, CounterRow(claudeOpus45FallbackPrefix),
                                       table, table')
                  ELSE x.r.forwarded /\ table' = table]_vars
    /\ [](\A k \in DOMAIN table : k.model = claudeOpus45FallbackPrefix)

\* With a limit of 1 on claude-opus-4-6 and of 2 on claude-opus-4-5-20251101,
\* two requests for claude-opus-4-6 were forwarded and filled the row of
\* claude-opus-4-5-20251101; the third was aborted.
C30_Witness ==
    /\ Handled
    /\ DOMAIN cfg.policies[1].limits = {claudeOpus46Prefix, claudeOpus45FallbackPrefix}
    /\ dailyLimit = 2
    /\ calls = 3
    /\ NormaliseModelKey(GetModel(resp[1].req.body)) = claudeOpus46Prefix
    /\ resp[1].r.status = 429
    /\ RowCount(table, CounterRow(claudeOpus45FallbackPrefix)) = 2
    /\ CounterRow(claudeOpus46Prefix) \notin DOMAIN table

\* With a limit of 1 on claude-opus-4-6 alone, two requests for it were
\* forwarded and no row was written
OnlyOpus46LimitIgnored ==
    /\ Handled
    /\ DOMAIN cfg.policies[1].limits = {claudeOpus46Prefix}
    /\ calls = 2
    /\ DOMAIN table = {}
    /\ resp[1].r.forwarded
    /\ NormaliseModelKey(GetModel(resp[1].req.body)) = claudeOpus46Prefix
    /\ \E k \in DOMAIN byModel : byModel[k].fwd = 2

-----------------------------------------------------------------------------
(* Consume under different spellings of its three key arguments.           *)

\* (apiKey, model, dayKey) as callers may spell them: plain, with spaces
\* around each, with a capital in the key, in the model, in the day, and
\* with a blank key, model or day
SpelledCalls ==
    { <<<<"k">>, <<"m">>, <<"d">>>>,
      <<<<" ", "k", " ">>, <<" ", "m", " ">>, <<" ", "d", " ">>>>,
      <<<<"K">>, <<"m">>, <<"d">>>>,
      <<<<"k">>, <<"M">>, <<"d">>>>,
      <<<<"k">>, <<"m">>, <<"D">>>>,
      <<<<" ">>, <<"m">>, <<"d">>>>,
      <<<<"k">>, <<" ">>, <<"d">>>>,
      <<<<"k">>, <<"m">>, <<>>>> }

\* A limiter just opened on an empty store
SpelledInit ==
    /\ table = ensureSchema(NoRows)
    /\ limiterOpen = TRUE
    /\ clock = StartClock
    /\ epoch = 0
    /\ dailyLimit \in 1..MaxLimit
    /\ last = [NoCall EXCEPT !.key = <<<<>>, <<>>, <<>>>>]
    /\ hist = <<>>
    /\ refusedAt = <<>>
    /\ calls = 0
    /\ ConcIdle
    /\ MWIdle
    /\ ExecIdle

\* One Consume call; last keeps the arguments as spelled and hist the
\* spellings of the calls made so far
DoSpelledConsume ==
    /\ calls < MaxCalls
    /\ \E c \in SpelledCalls :
        LET r == Consume(table, limiterOpen, c[1], c[2], c[3], dailyLimit, clock) IN
        /\ table' = r.rows
        /\ last' = [seq |-> calls + 1, key |-> c, limit |-> dailyLimit, count |-> r.count,
                    allowed |-> r.allowed, err |-> r.err, stmt |-> FALSE, epoch |-> epoch]
        /\ hist' = Append(hist, c)
    /\ calls' = calls + 1
    /\ UNCHANGED <<limiterOpen, clock, epoch, dailyLimit, refusedAt>>
    /\ UNCHANGED nonLimVars

SpelledNext == DoSpelledConsume

SpecSpelled == SpelledInit /\ [][SpelledNext]_vars

\* A blank argument
Blank(c) == \E i \in 1..3 : TrimSpace(c[i]) = <<>>

\* Two spellings that differ by letter case or surrounding white space only
SameButCaseAndSpace(c, d) == \A i \in 1..3 : ToLower(TrimSpace(c[i])) = ToLower(TrimSpace(d[i]))

\* Two spellings that differ by surrounding white space and, in the model,
\* by letter case only
SameButSpaceAndModelCase(c, d) ==
    /\ TrimSpace(c[1]) = TrimSpace(d[1])
    /\ ToLower(TrimSpace(c[2])) = ToLower(TrimSpace(d[2]))
    /\ TrimSpace(c[3]) = TrimSpace(d[3])

\* A blank argument gives the invalid-input error and changes no row
BlankRejected ==
    [][calls' = calls + 1 =>
        (Blank(last'.key) => (last'.err = "invalid inputs" /\ ~last'.allowed /\ table' = table))]_vars

\* C31 as stated: a Consume call sees the count left by the earlier calls
\* whose client key, model and day differ from its own by letter case or
\* surrounding white space only; a blank client key, model or day gives the
\* invalid-input error with the store unchanged.
C31_SpellingsShareRow ==
    /\ [](\A n \in 1..Len(hist) :
            (n = last.seq /\ ~Blank(last.key)) =>
                LET before == Cardinality({i \in 1..(n - 1) : SameButCaseAndSpace(hist[i], hist[n])})
                IN /\ last.allowed <=> before < dailyLimit
                   /\ last.allowed => last.count = before + 1)
    /\ BlankRejected

\* C31: a Consume call sees the count left by the earlier calls whose client
\* key and day differ from its own by surrounding white space only and whose
\* model differs by letter case or surrounding white space only; a blank
\* client key, model or day gives the invalid-input error with the store
\* unchanged.
C31_SpellingsShareRowModelCase ==
    /\ [](\A n \in 1..Len(hist) :
            (n = last.seq /\ ~Blank(last.key)) =>
                LET before == Cardinality({i \in 1..(n - 1) : SameButSpaceAndModelCase(hist[i], hist[n])})
                IN /\ last.allowed <=> before < dailyLimit
                   /\ last.allowed => last.count = before + 1)
    /\ BlankRejected

\* The row of k, m, d took a call spelled with spaces and one with a capital
\* in the model; the call with a capital in the key went to a row of its own.
C31_Witness ==
    /\ dailyLimit = 2
    /\ calls = 3
    /\ hist = << <<<<" ", "k", " ">>, <<" ", "m", " ">>, <<" ", "d", " ">>>>, <<<<"K">>, <<"m">>, <<"d">>>>, <<<<"k">>, <<"M">>, <<"d">>>> >>
    /\ last.allowed
    /\ last.count = 2
    /\ DOMAIN table = {ConsumeKey(<<"k">>, <<"m">>, <<"d">>), ConsumeKey(<<"K">>, <<"m">>, <<"d">>)}

\* ---------------------------------------------------------------------------
\* Cost arithmetic (billing): costMicroUSD on int64 operands
\* ---------------------------------------------------------------------------

\* An int64 is its eight bytes in two's complement, least significant first;
\* a wider natural number is a longer sequence of bytes

tokensPerMillion == 1000000

\* The n low bytes of a natural number
RECURSIVE Bytes(_, _)
Bytes(v, n) == IF n = 0 THEN <<>> ELSE <<v % 256>> \o Bytes(v \div 256, n - 1)

\* a + carry on Len(a) bytes from byte k on, the carry out of the top byte lost
RECURSIVE AddFrom(_, _, _)
AddFrom(a, k, carry) ==
    IF k > Len(a) THEN <<>>
    ELSE LET s == a[k] + carry IN <<s % 256>> \o AddFrom(a, k + 1, s \div 256)

AddSmall(a, c) == AddFrom(a, 1, c)

\* The sum of the byte products that land on byte k of a * b
RECURSIVE Column(_, _, _, _)
Column(a, b, k, i) ==
    IF i > k THEN 0
    ELSE (IF i <= Len(a) /\ k + 1 - i <= Len(b) THEN a[i] * b[k + 1 - i] ELSE 0)
         + Column(a, b, k, i + 1)

RECURSIVE MulFrom(_, _, _, _, _)
MulFrom(a, b, k, carry, n) ==
    IF k > n THEN <<>>
    ELSE LET s == Column(a, b, k, 1) + carry IN
         <<s % 256>> \o MulFrom(a, b, k + 1, s \div 256, n)

\* The n low bytes of a * b
MulBytes(a, b, n) == MulFrom(a, b, 1, 0, n)

\* The bytes 1..k of a \div d, rem being what the bytes above k left over
RECURSIVE DivFrom(_, _, _, _)
DivFrom(a, d, k, rem) ==
    IF k = 0 THEN <<>>
    ELSE LET cur == rem * 256 + a[k] IN
         DivFrom(a, d, k - 1, cur % d) \o <<cur \div d>>

DivSmall(a, d) == DivFrom(a, d, Len(a), 0)

Zeros(n) == [i \in 1..n |-> 0]

\* Two's complement negation on Len(a) bytes
Negate(a) == AddSmall([i \in 1..Len(a) |-> 255 - a[i]], 1)

IsNegative(a) == a[Len(a)] >= 128

IsZero(a) == \A i \in 1..Len(a) : a[i] = 0

\* int64(v) for an integer v
Int64(v) == IF v >= 0 THEN Bytes(v, 8) ELSE Negate(Bytes(-v, 8))

\* int64(m) << (8 * e)
Int64Shifted(m, e) == [i \in 1..8 |-> IF i <= e THEN 0 ELSE Int64(m)[i - e]]

\* The integer an int64 holds, for the values that fit an integer here
RECURSIVE Unsigned(_, _)
Unsigned(a, k) == IF k > Len(a) \/ IsZero([i \in 1..Len(a) |-> IF i < k THEN 0 ELSE a[i]]) THEN 0
                  ELSE a[k] + 256 * Unsigned(a, k + 1)

Int64Value(a) == IF IsNegative(a) THEN -Unsigned(Negate(a), 1) ELSE Unsigned(a, 1)

\* Go's a * b, a + c and a / d on int64: the product and the sum wrap, the
\* quotient is truncated toward zero
Int64Mul(a, b) == MulBytes(a, b, 8)

Int64Add(a, c) == AddSmall(a, c)

Int64Div(a, d) == IF IsNegative(a) THEN Negate(DivSmall(Negate(a), d)) ELSE DivSmall(a, d)

\* A cost that is cut off instead of rounded
costMicroUSD_truncated(tokens, microUSDPer1M) ==
    IF IsNegative(tokens) \/ IsZero(tokens) \/ IsNegative(microUSDPer1M) \/ IsZero(microUSDPer1M)
    THEN Int64(0)
    ELSE Int64Div(Int64Mul(tokens, microUSDPer1M), tokensPerMillion)

\* costMicroUSD: zero for tokens <= 0 or a rate <= 0, else
\* (tokens*microUSDPer1M + tokensPerMillion/2) / tokensPerMillion
costMicroUSD(tokens, microUSDPer1M) ==
    IF IsNegative(tokens) \/ IsZero(tokens) \/ IsNegative(microUSDPer1M) \/ IsZero(microUSDPer1M)
    THEN Int64(0)
    ELSE Int64Div(Int64Add(Int64Mul(tokens, microUSDPer1M), tokensPerMillion \div 2),
                  tokensPerMillion)

\* Token counts and rates, each as m * 256^e: none, small ones on both sides
\* of a half, a million, large ones whose products leave the int64 range, and
\* a negative one
CostTokens == {[m |-> 0, e |-> 0], [m |-> 1, e |-> 0], [m |-> 3, e |-> 0], [m |-> 7, e |-> 0],
               [m |-> 1000000, e |-> 0], [m |-> 128, e |-> 4], [m |-> 1, e |-> 5],
               [m |-> -2, e |-> 0]}

CostRates == {[m |-> 0, e |-> 0], [m |-> 1, e |-> 0], [m |-> 499999, e |-> 0],
              [m |-> 500000, e |-> 0], [m |-> 5000000, e |-> 0], [m |-> 25000000, e |-> 0],
              [m |-> 1, e |-> 3], [m |-> -1, e |-> 0]}

CostInit ==
    /\ RequestPathIdle
    /\ rw = <<>>
    /\ PoolIdle
    /\ usage = <<>>
    /\ usageLog = <<>>
    /\ uRes = <<>>
    /\ savedPrices = <<>>
    /\ priceRes = <<>>
    /\ fe = <<>>
    /\ san = <<>>
    /\ ft = <<>>
    /\ eb = <<>>
    /\ cm \in [tokens : CostTokens, rate : CostRates, cost : {<<>>}, done : {FALSE}]
    /\ ka = <<>>

\* One costMicroUSD call
ComputeCost ==
    /\ cm # <<>>
    /\ ~cm.done
    /\ cm' = [cm EXCEPT !.cost = costMicroUSD(Int64Shifted(cm.tokens.m, cm.tokens.e),
                                              Int64Shifted(cm.rate.m, cm.rate.e)),
                        !.done = TRUE]
    /\ UNCHANGED <<limVars, concVars, mwVars, exVars, stVars, rw, poolVars, storeVars, fe, san, ft, eb, ka>>

CostNext == ComputeCost

SpecCost == CostInit /\ [][CostNext]_vars

\* t * r + 500000 with nothing lost, on seventeen bytes
ExactSum(t, r) == AddSmall(MulBytes(t, r, 16) \o <<0>>, 500000)

\* A seventeen-byte natural number that is at most the largest int64
FitsInt64(x) == x[8] < 128 /\ \A i \in 9..Len(x) : x[i] = 0

\* floor((t * r + 500000) / 1000000) with nothing lost
ExactCost(t, r) == DivSmall(ExactSum(t, r), 1000000)

CostDone == cm # <<>> /\ cm.done

CostOperands == [t |-> Int64Shifted(cm.tokens.m, cm.tokens.e),
                 r |-> Int64Shifted(cm.rate.m, cm.rate.e)]

NonNegativeOperands == cm.tokens.m >= 0 /\ cm.rate.m >= 0

\* Operands small enough for the product to be taken on plain integers
SmallOperands ==
    /\ cm.tokens.e = 0 /\ cm.rate.e = 0
    /\ cm.tokens.m >= 0 /\ cm.rate.m >= 0
    /\ cm.tokens.m <= 7 \/ cm.rate.m <= 1

\* C34 as stated: for every t >= 0 and r >= 0 the cost is
\* floor((t*r + 500000) / 1000000), is 0 when t = 0 or r = 0, and is never
\* negative
C34_CostHalfUp ==
    CostDone /\ NonNegativeOperands =>
        /\ cm.cost \o Zeros(9) = ExactCost(CostOperands.t, CostOperands.r)
        /\ (cm.tokens.m = 0 \/ cm.rate.m = 0) => cm.cost = Int64(0)
        /\ ~IsNegative(cm.cost)

\* C34: for every t >= 0 and r >= 0 whose t*r + 500000 is at most the largest
\* int64, the cost is floor((t*r + 500000) / 1000000) and not negative; it is 0
\* when t = 0 or r = 0; on small operands it is the value plain integer
\* arithmetic gives
C34_CostHalfUpWithinInt64 ==
    CostDone /\ NonNegativeOperands =>
        /\ FitsInt64(ExactSum(CostOperands.t, CostOperands.r)) =>
              /\ cm.cost \o Zeros(9) = ExactCost(CostOperands.t, CostOperands.r)
              /\ ~IsNegative(cm.cost)
        /\ (cm.tokens.m = 0 \/ cm.rate.m = 0) => cm.cost = Int64(0)
        /\ SmallOperands =>
              Int64Value(cm.cost) = (cm.tokens.m * cm.rate.m + 500000) \div 1000000

\* Three tokens at half a micro-dollar each cost 1.5, charged as 2
C34_Witness ==
    /\ CostDone
    /\ cm.tokens = [m |-> 3, e |-> 0]
    /\ cm.rate = [m |-> 500000, e |-> 0]
    /\ cm.cost = Int64(2)

\* 2^39 tokens at 25 dollars a million: the product leaves the int64 range
\* and the cost comes out negative
CostWrappedNegative ==
    /\ CostDone
    /\ cm.tokens = [m |-> 128, e |-> 4]
    /\ cm.rate = [m |-> 25000000, e |-> 0]
    /\ IsNegative(cm.cost)

\* ---------------------------------------------------------------------------
\* Usage sink (billing): UsagePersistPlugin.HandleUsage
\* ---------------------------------------------------------------------------

Detail(input, output, reasoning, cached, total) ==
    [InputTokens |-> input, OutputTokens |-> output, ReasoningTokens |-> reasoning,
     CachedTokens |-> cached, TotalTokens |-> total]

\* coreusage.Record; RequestedAt is the zero time or an hour of the clock
UsageRecord(apiKey, model, requestedAt, failed, detail) ==
    [APIKey |-> apiKey, Model |-> model, RequestedAt |-> requestedAt, Failed |-> failed,
     Detail |-> detail]

ZeroTime == [zero |-> TRUE, at |-> 0]

TimeAt(hour) == [zero |-> FALSE, at |-> hour]

boolToInt64(v) == IF v THEN 1 ELSE 0

unknownModel == <<"u", "n", "k", "n", "o", "w", "n">>

\* The row a record is booked on and the delta AddUsage is called with; the
\* three class costs are computed on int64
UsageDelta(record, price, promptFromInput) ==
    LET detail == record.Detail
        summed == detail.InputTokens + detail.OutputTokens + detail.ReasoningTokens
                  + detail.CachedTokens
        total == IF detail.TotalTokens = 0 THEN summed ELSE detail.TotalTokens
        difference == detail.InputTokens - detail.CachedTokens
        promptTokens == IF promptFromInput THEN detail.InputTokens
                        ELSE IF difference < 0 THEN 0 ELSE difference
        completionTokens == detail.OutputTokens + detail.ReasoningTokens
        cost == Int64Value(costMicroUSD(Int64(promptTokens), Int64(price.Prompt)))
                + Int64Value(costMicroUSD(Int64(detail.CachedTokens), Int64(price.Cached)))
                + Int64Value(costMicroUSD(Int64(completionTokens), Int64(price.Completion)))
    IN
    DailyUsageRow(1, boolToInt64(record.Failed), max64(0, detail.InputTokens),
                  max64(0, detail.OutputTokens), max64(0, detail.ReasoningTokens),
                  max64(0, detail.CachedTokens), max64(0, IF total < 0 THEN 0 ELSE total),
                  max64(0, cost))

\* A sink that charges the whole input at the prompt rate
HandleUsage_inputAtPromptRate(rows, saved, record, queryFails, now) ==
    LET apiKey == TrimSpace(record.APIKey)
        normalised == NormaliseModelKey(record.Model)
        modelKey == IF normalised = <<>> THEN unknownModel ELSE normalised
        ts == IF record.RequestedAt.zero THEN now ELSE record.RequestedAt.at
        resolved == ResolvePriceMicro(saved, modelKey)
    IN
    IF apiKey = <<>> THEN rows
    ELSE IF queryFails \/ resolved.err # "" THEN rows
    ELSE SQLiteStore_AddUsage(rows, apiKey, modelKey, DayKeyChina(ts),
                              UsageDelta(record, resolved.price, TRUE)).rows

\* HandleUsage: the rows of daily_usage after the record has been handled.
\* queryFails is the price query of ResolvePriceMicro returning an error, now
\* is time.Now()
HandleUsage(rows, saved, record, queryFails, now) ==
    LET apiKey == TrimSpace(record.APIKey)
        normalised == NormaliseModelKey(record.Model)
        modelKey == IF normalised = <<>> THEN unknownModel ELSE normalised
        ts == IF record.RequestedAt.zero THEN now ELSE record.RequestedAt.at
        resolved == ResolvePriceMicro(saved, modelKey)
    IN
    IF apiKey = <<>> THEN rows
    ELSE IF queryFails \/ resolved.err # "" THEN rows
    ELSE SQLiteStore_AddUsage(rows, apiKey, modelKey, DayKeyChina(ts),
                              UsageDelta(record, resolved.price, FALSE)).rows

\* The records the sink is handed: a priced model and one without a built-in
\* price in a spelling of its own, token counts with and without a total, with
\* more cached than input tokens, with a negative count and a negative total,
\* a failed call, a record without a time, one of the next day, one without a
\* model and one without a client key
SinkDetails == {Detail(3, 1, 1, 1, 0), Detail(1, 0, 0, 2, 9), Detail(0, -2, 1, 0, 0),
                Detail(2, 1, 0, 0, -4)}

SinkRecords ==
    {UsageRecord(<<"k", "1">>, model, TimeAt(StartClock), FALSE, detail) :
        model \in {claudeOpus45, <<" ", "O", "3", " ">>}, detail \in SinkDetails}
    \cup {UsageRecord(<<" ", "k", "1">>, claudeOpus45, TimeAt(StartClock), TRUE, Detail(3, 1, 1, 1, 0)),
          UsageRecord(<<"k", "1">>, claudeOpus45, ZeroTime, FALSE, Detail(3, 1, 1, 1, 0)),
          UsageRecord(<<"k", "1">>, claudeOpus45, TimeAt(EndClock), FALSE, Detail(3, 1, 1, 1, 0)),
          UsageRecord(<<"k", "1">>, <<" ">>, TimeAt(StartClock), FALSE, Detail(3, 1, 1, 1, 0)),
          UsageRecord(<<" ">>, claudeOpus45, TimeAt(StartClock), FALSE, Detail(3, 1, 1, 1, 0))}

\* model_prices: empty, or a price saved for o3 whose rates leave fractions
SinkSavedPrices ==
    {<<>>, [k \in {<<"o", "3">>} |-> PriceMicroUSDPer1M(499999, 500000, 250000)]}

SinkInit ==
    /\ RequestPathIdle
    /\ rw = <<>>
    /\ PoolIdle
    /\ usage = <<>>
    /\ usageLog = <<>>
    /\ uRes = [calls |-> 0, op |-> "none"]
    /\ savedPrices \in SinkSavedPrices
    /\ priceRes = <<>>
    /\ fe = <<>>
    /\ PureIdle

\* One HandleUsage call; what it was handed and the rows it found are kept
DoHandleUsage ==
    /\ uRes.calls < MaxUsageCalls
    /\ \E record \in SinkRecords, queryFails \in BOOLEAN, now \in {StartClock, EndClock} :
        /\ record.RequestedAt.zero \/ now = StartClock
        /\ usage' = HandleUsage(usage, savedPrices, record, queryFails, now)
        /\ uRes' = [calls |-> uRes.calls + 1, op |-> "handle", record |-> record,
                    queryFails |-> queryFails, now |-> now, before |-> usage]
        /\ usageLog' = Append(usageLog, record)
    /\ UNCHANGED otherThanUsage

SinkNext == DoHandleUsage

SpecSink == SinkInit /\ [][SinkNext]_vars

UsageHandled == uRes # <<>> /\ uRes.op = "handle"

\* The row the handled record belongs to
HandledRow ==
    LET normalised == NormaliseModelKey(uRes.record.Model) IN
    <<TrimSpace(uRes.record.APIKey),
      IF normalised = <<>> THEN unknownModel ELSE normalised,
      DayKeyChina(IF uRes.record.RequestedAt.zero THEN uRes.now ELSE uRes.record.RequestedAt.at)>>

\* What the handled call added to a column of that row
Grown(column) ==
    IF HandledRow \notin DOMAIN usage THEN 0
    ELSE usage[HandledRow][column]
         - (IF HandledRow \in DOMAIN uRes.before THEN uRes.before[HandledRow][column] ELSE 0)

\* The price of the handled record's model, none when it has none
HandledPrice == ResolvePriceMicro(savedPrices, HandledRow[2])

Clamped(v) == IF v < 0 THEN 0 ELSE v

\* The record's tokens are on the row and one request more
TokensBooked ==
    /\ Grown("Requests") = 1
    /\ Grown("InputTokens") = Clamped(uRes.record.Detail.InputTokens)
    /\ Grown("OutputTokens") = Clamped(uRes.record.Detail.OutputTokens)
    /\ Grown("ReasoningTokens") = Clamped(uRes.record.Detail.ReasoningTokens)
    /\ Grown("CachedTokens") = Clamped(uRes.record.Detail.CachedTokens)

\* C32: when the price resolution of a handled record fails, or the model has
\* no price, the record is booked on its row with one request, its tokens and
\* a cost of 0
C32_PriceErrorBookedAtZero ==
    UsageHandled /\ TrimSpace(uRes.record.APIKey) # <<>>
            /\ (uRes.queryFails \/ HandledPrice.source = "missing") =>
        /\ TokensBooked
        /\ Grown("CostMicroUSD") = 0

\* The half that holds: a record whose model has no price is booked at cost 0
MissingPriceBookedAtZero ==
    UsageHandled /\ TrimSpace(uRes.record.APIKey) # <<>>
            /\ ~uRes.queryFails /\ HandledPrice.source = "missing" =>
        /\ TokensBooked
        /\ Grown("CostMicroUSD") = 0

\* A record of o3 handled with no price saved for it: booked, cost 0
MissingPriceBooked ==
    /\ UsageHandled
    /\ ~uRes.queryFails
    /\ HandledRow[2] = <<"o", "3">>
    /\ HandledPrice.source = "missing"
    /\ Grown("Requests") = 1
    /\ Grown("InputTokens") = 3

\* A record whose price query failed: nothing is booked
PriceErrorDropsRecord ==
    /\ UsageHandled
    /\ uRes.queryFails
    /\ TrimSpace(uRes.record.APIKey) # <<>>
    /\ usage = uRes.before

\* t tokens at rate r, rounded half up
ClassCost(t, r) == IF t <= 0 \/ r <= 0 THEN 0 ELSE (t * r + 500000) \div 1000000

\* C33: a handled record whose price resolves is charged max(0, input -
\* cached) tokens at the prompt rate, output + reasoning at the completion
\* rate and cached at the cached rate, the cost booked being the sum; the
\* total booked is the reported one, the sum of the four counts when 0 was
\* reported, and 0 when that is negative; a record with a blank client key
\* changes no row
C33_ChargedByClass ==
    UsageHandled =>
        LET detail == uRes.record.Detail
            summed == detail.InputTokens + detail.OutputTokens + detail.ReasoningTokens
                      + detail.CachedTokens
        IN
        /\ TrimSpace(uRes.record.APIKey) = <<>> => usage = uRes.before
        /\ TrimSpace(uRes.record.APIKey) # <<>> /\ ~uRes.queryFails =>
            /\ Grown("CostMicroUSD") =
                  ClassCost(Clamped(detail.InputTokens - detail.CachedTokens), HandledPrice.price.Prompt)
                  + ClassCost(detail.OutputTokens + detail.ReasoningTokens, HandledPrice.price.Completion)
                  + ClassCost(detail.CachedTokens, HandledPrice.price.Cached)
            /\ Grown("TotalTokens") =
                  Clamped(IF detail.TotalTokens = 0 THEN summed ELSE detail.TotalTokens)

\* One input and two cached tokens of o3 at its saved rates: no prompt token
\* is charged, the two cached tokens cost 0.5 and are charged as 1, and the
\* reported total of 9 is kept
C33_Witness ==
    /\ UsageHandled
    /\ ~uRes.queryFails
    /\ savedPrices # <<>>
    /\ HandledRow[2] = <<"o", "3">>
    /\ uRes.record.Detail = Detail(1, 0, 0, 2, 9)
    /\ Grown("CostMicroUSD") = 1
    /\ Grown("TotalTokens") = 9

\* ---------------------------------------------------------------------------
\* The middleware with a limiter or a cost reader that is missing or failing
\* ---------------------------------------------------------------------------

\* Policies with a limit and an exclusion, a limit and a budget of 1 and of
\* 0.4 micro-USD, and a budget and an exclusion without a limit
EnforceConfigs(L) ==
    { [nil |-> FALSE, policies |->
          <<Policy(TheAPIKey, "unset", <<<<"*", "-", "4", "-", "6">>>>, claudeOpus46Prefix :> L, 0)>>],
      [nil |-> FALSE, policies |->
          <<Policy(TheAPIKey, "true", <<>>, claudeOpus46Prefix :> L, 10)>>],
      [nil |-> FALSE, policies |->
          <<Policy(TheAPIKey, "true", <<<<"*", "-", "4", "-", "6">>>>, claudeOpus46Prefix :> L, 4)>>],
      [nil |-> FALSE, policies |->
          <<Policy(TheAPIKey, "true", <<<<"g", "p", "t", "*">>>>, <<>>, 10)>>] }

\* The limiter given to the middleware or nil, open or closed; the cost
\* reader given, nil, or one whose query fails
EnforceDeps == [limiter : {"set", "nil"}, costReader : {"set", "nil", "failing"}]

EnforceInit ==
    /\ table = ensureSchema(NoRows)
    /\ limiterOpen \in BOOLEAN
    /\ clock = StartClock
    /\ epoch = 0
    /\ dailyLimit \in 1..MaxLimit
    /\ last = NoCall
    /\ hist = <<>>
    /\ refusedAt = <<>>
    /\ calls = 0
    /\ ConcIdle
    /\ cfg \in EnforceConfigs(dailyLimit)
    /\ deps \in EnforceDeps
    /\ costs = <<>>
    /\ resp = <<>>
    /\ byLimitKey = <<>>
    /\ byModel = <<>>
    /\ ExecIdle

EnforceNext == DoRequest \/ AddUsage \/ Tick

SpecEnforce == EnforceInit /\ [][EnforceNext]_vars

RejectedBeforeLimit(x) ==
    \/ x.r.status = 403
    \/ x.r.status = 429 /\ x.r.msg = "daily budget exceeded"

\* C35: a request that the budget check rejects with 429 'daily budget
\* exceeded' or the exclusion check with 403 leaves every daily request
\* counter as it was
C35_RejectedLeavesCounters ==
    [][calls' # calls /\ RejectedBeforeLimit(resp'[1]) => table' = table]_vars

\* A request for the thinking variant was counted on the limited model's
\* row; the next request, for the limited model itself, was denied by the
\* exclusion pattern and the row still holds 1
C35_Witness ==
    /\ Handled
    /\ resp[1].r.status = 403
    /\ NormaliseModelKey(resp[1].r.info.effective) \in DOMAIN resp[1].policy.limits
    /\ calls = 2
    /\ \E k \in DOMAIN table : table[k].count = 1

\* A request for the limited model was rejected by the budget check with no
\* row written
BudgetRejectedUncounted ==
    /\ Handled
    /\ resp[1].r.status = 429
    /\ resp[1].r.msg = "daily budget exceeded"
    /\ NormaliseModelKey(GetModel(resp[1].req.body)) \in DOMAIN resp[1].policy.limits
    /\ DOMAIN table = {}

\* The request came with a body method from a client whose policy has a budget
BudgetApplies(x) ==
    /\ x.hasPolicy
    /\ x.req.method \notin BodylessMethods
    /\ x.policy.budget > 0

\* C36: a request under a daily budget is aborted with 500 and not forwarded
\* when the cost reader is absent or its query fails; a request that reaches
\* the limit step with a limit above 0 is aborted with 500 and not forwarded
\* when the limiter is absent or Consume returns an error; neither writes a
\* counter row
C36_FailsClosed ==
    Handled =>
        LET x == resp[1] IN
        /\ BudgetApplies(x) /\ deps.costReader # "set" =>
              x.r.status = 500 /\ ~x.r.forwarded /\ DOMAIN table = {}
        /\ x.r.info.limitStep /\ (deps.limiter = "nil" \/ ~limiterOpen) =>
              x.r.status = 500 /\ ~x.r.forwarded /\ DOMAIN table = {}

\* A request for a limited model met a middleware built without a limiter
C36_Witness ==
    /\ Handled
    /\ resp[1].r.info.limitStep
    /\ deps.limiter = "nil"
    /\ resp[1].r.status = 500
    /\ resp[1].r.msg = "daily limiter unavailable"

\* A request under a budget of 0.4 micro-USD met a cost reader that fails
BudgetFailsClosed ==
    /\ Handled
    /\ resp[1].policy.budget = 4
    /\ deps.costReader = "failing"
    /\ resp[1].r.status = 500

\* A request for a limited model met a limiter whose database is closed
ClosedLimiterFailsClosed ==
    /\ Handled
    /\ resp[1].r.info.limitStep
    /\ deps.limiter = "set"
    /\ ~limiterOpen
    /\ resp[1].r.status = 500
    /\ resp[1].r.msg = "consume failed"

\* ---------------------------------------------------------------------------
\* Model resolution of Claude-looking models
\* ---------------------------------------------------------------------------

\* Models whose name before the "(...)" suffix begins with claude-, in several
\* spellings
ClaudeLookingModels ==
    {<<"c", "l", "a", "u", "d", "e", "-", "o", "p", "u", "s", "-", "4", "-", "6">>, <<" ", "C", "l", "a", "u", "d", "e", "-", "O", "p", "u", "s", "-", "4", "-", "6", "(", "h", "i", "g", "h", ")">>, <<"c", "l", "a", "u", "d", "e", "-", "(", "x", ")">>, <<"c", "l", "a", "u", "d", "e", "-", "x", "(">>}

\* Models that no prefix of the heuristic fits: no dash after claude, an empty
\* name before the suffix, an unknown name
UnprefixedModels == {<<"c", "l", "a", "u", "d", "e">>, <<"(", "c", "l", "a", "u", "d", "e", "-", "x", ")">>, <<"f", "o", "o">>}

ResolveModels == ClaudeLookingModels \cup UnprefixedModels \cup {<<"o", "3">>, <<"a", "u", "t", "o", "(", "h", "i", "g", "h", ")">>}

ResolveInit ==
    /\ PolicyIdle
    /\ StreamIdle
    /\ xReq \in [modelName : ResolveModels, policy : FailoverPolicies, registry : Registries]
    /\ xPc = "start"
    /\ xCur = <<>>
    /\ xCalls = <<>>
    /\ xResult = <<>>

SpecResolve == ResolveInit /\ [][ExecNext]_vars

\* What the resolution of the requested model gave, and what came of it
ResolutionOfClaudeModels(details) ==
    /\ xReq.modelName \in ClaudeLookingModels =>
          /\ details.ok
          /\ xReq.registry = <<>> => details.providers = <<<<"c", "l", "a", "u", "d", "e">>>>
    /\ ~details.ok =>
          /\ xReq.modelName \in UnprefixedModels
          /\ details.err.StatusCode = 502
          /\ xPc # "start" =>
                /\ xPc = "done"
                /\ xCalls = <<>>
                /\ xResult = <<[ok |-> FALSE, err |-> details.err]>>
    /\ xReq.modelName \in UnprefixedModels => ~details.ok

Delivered == <<sOut.data, sOut.errs>>

\* C38 as stated: at most one error is delivered per request, no data chunk
\* is delivered after an error, and once the request context is cancelled no
\* further chunk and no error is delivered
C38_SilentOnceCancelled ==
    /\ [](sOut # <<>> => Len(sOut.errs) <= 1)
    /\ [][sOut # <<>> /\ Len(sOut.errs) >= 1 => Delivered' = Delivered]_vars
    /\ [][sOut # <<>> /\ ctxDone => Delivered' = Delivered]_vars

\* C38: at most one error is delivered per request, no data chunk is
\* delivered after an error, and once the reader has returned, be it on the
\* cancellation, after its error or at the end of the upstream stream,
\* nothing more is delivered
C38_SilentOnceReturned ==
    /\ [](sOut # <<>> => Len(sOut.errs) <= 1)
    /\ [][sOut # <<>> /\ Len(sOut.errs) >= 1 => Delivered' = Delivered]_vars
    /\ [][sPc = "closed" => sOut' = sOut]_vars

\* A chunk went out, the context was cancelled, the reader still read an
\* error chunk and its error went out
C38_Witness ==
    /\ sPc = "closed"
    /\ ~sReq.ctxNil
    /\ ctxDone
    /\ Len(sOut.data) = 1
    /\ Len(sOut.errs) = 1
    /\ Len(sSeen) = 2
    /\ sSeen[2].Err # <<>>

\* ---------------------------------------------------------------------------
\* Consume on one row and the rows of other clients, models and days
\* ---------------------------------------------------------------------------

\* One Consume call of one of two clients for one of two models, on the day
\* the clock shows
DoDayConsume ==
    \E apiKey \in {<<"k">>, <<"j">>}, model \in {<<"m">>, <<"n">>} :
        ConsumeCall(apiKey, model, DayKeyChina(clock), dailyLimit)

DaysNext == DoDayConsume \/ Tick

SpecDays == LimInit /\ [][DaysNext]_vars

\* C39: a Consume call leaves the row of every other (client key, model, day)
\* as it was and creates no other row, and the first Consume on a row returns
\* (1, true), whatever the rows of other days hold
C39_OtherRowsUntouched ==
    /\ [][calls' # calls =>
            /\ \A k \in DOMAIN table :
                  k # last'.key => k \in DOMAIN table' /\ table'[k] = table[k]
            /\ DOMAIN table' \subseteq DOMAIN table \cup {last'.key}]_vars
    /\ [](last.stmt /\ hist[last.key] = 1 => last.count = 1 /\ last.allowed)

\* The limit of the day was used up and a further call refused; after
\* midnight the first call for the same client and model returned (1, true)
\* and the row of the day before still holds the limit
C39_Witness ==
    /\ last.stmt
    /\ last.key.day = DayKeyChina(EndClock)
    /\ last.count = 1
    /\ last.allowed
    /\ \E k \in DOMAIN refusedAt :
          /\ k.api_key = last.key.api_key
          /\ k.model = last.key.model
          /\ k.day = DayKeyChina(StartClock)
          /\ table[k].count = dailyLimit

\* ---------------------------------------------------------------------------
\* Keep-alive of a non-streaming response: StartNonStreamingKeepAlive
\* ---------------------------------------------------------------------------

\* The calls of stop one caller makes, and the blank lines the ticker may ask for
MaxStopCalls == 2

MaxKeepAliveLines == 2

\* The goroutines that hold the stop function
Stoppers == {"handler", "deferred"}

\* What StartNonStreamingKeepAlive leaves behind.  started is false when it
\* returned the empty stop function (no handler or context, no interval, no
\* flusher); ctxNil is a nil ctx, replaced by context.Background().  g is
\* where the goroutine is, once the state of stopOnce, tick a value waiting
\* on ticker.C, lines the blank lines written so far.
KeepAlive(started, ctxNil) ==
    [started |-> started, ctxNil |-> ctxNil, ctxDone |-> FALSE,
     g |-> IF started THEN "select" ELSE "none",
     stopClosed |-> FALSE, once |-> "idle", tick |-> FALSE, lines |-> 0,
     pc |-> [c \in Stoppers |-> "idle"], made |-> [c \in Stoppers |-> 0],
     stopped |-> FALSE, panicked |-> FALSE]

KeepAliveInit ==
    /\ RequestPathIdle
    /\ rw = <<>>
    /\ PoolIdle
    /\ usage = <<>>
    /\ usageLog = <<>>
    /\ uRes = <<>>
    /\ savedPrices = <<>>
    /\ priceRes = <<>>
    /\ fe = <<>>
    /\ san = <<>>
    /\ ft = <<>>
    /\ eb = <<>>
    /\ cm = <<>>
    /\ ka \in {KeepAlive(started, ctxNil) : started \in BOOLEAN, ctxNil \in BOOLEAN}

otherThanKeepAlive ==
    <<limVars, concVars, mwVars, exVars, stVars, rw, poolVars, storeVars, fe, san, ft, eb, cm>>

\* The ticker puts a value on ticker.C, which holds one
KTick ==
    /\ ka.g \in {"select", "writing"}
    /\ ~ka.tick
    /\ ka.lines < MaxKeepAliveLines
    /\ ka' = [ka EXCEPT !.tick = TRUE]
    /\ UNCHANGED otherThanKeepAlive

\* The request context is cancelled
KCancel ==
    /\ ~ka.ctxNil
    /\ ~ka.ctxDone
    /\ ka' = [ka EXCEPT !.ctxDone = TRUE]
    /\ UNCHANGED otherThanKeepAlive

\* Lines 510-515: the select takes one of the cases that are ready; on
\* stopChan and ctx.Done() the goroutine returns and wg.Done runs
KSelect ==
    /\ ka.g = "select"
    /\ \/ ka.stopClosed /\ ka' = [ka EXCEPT !.g = "done"]
       \/ ka.ctxDone /\ ka' = [ka EXCEPT !.g = "done"]
       \/ ka.tick /\ ka' = [ka EXCEPT !.g = "writing", !.tick = FALSE]
    /\ UNCHANGED otherThanKeepAlive

\* Lines 516-517: the blank line is written and flushed
KWrite ==
    /\ ka.g = "writing"
    /\ ka' = [ka EXCEPT !.g = "select", !.lines = @ + 1]
    /\ UNCHANGED otherThanKeepAlive

\* A caller calls stop; the empty stop function returns at once
StopCall(c) ==
    /\ ka.pc[c] = "idle"
    /\ ka.made[c] < MaxStopCalls
    /\ ka' = IF ka.started
             THEN [ka EXCEPT !.pc[c] = "once", !.made[c] = @ + 1]
             ELSE [ka EXCEPT !.made[c] = @ + 1, !.stopped = TRUE]
    /\ UNCHANGED otherThanKeepAlive

\* Line 523: stopOnce.Do runs the function for the first caller, makes a
\* caller that comes while it runs wait, and does nothing afterwards
StopOnce(c) ==
    /\ ka.pc[c] = "once"
    /\ ka.once # "running"
    /\ ka' = IF ka.once = "idle"
             THEN [ka EXCEPT !.pc[c] = "closing", !.once = "running"]
             ELSE [ka EXCEPT !.pc[c] = "wait"]
    /\ UNCHANGED otherThanKeepAlive

\* Line 524: close(stopChan), which panics on a closed channel
StopClose(c) ==
    /\ ka.pc[c] = "closing"
    /\ ka' = [ka EXCEPT !.pc[c] = "wait", !.once = "done", !.stopClosed = TRUE,
                        !.panicked = ka.stopClosed]
    /\ UNCHANGED otherThanKeepAlive

\* A stop that does not wait for the goroutine
StopWait_returnsAtOnce(c) ==
    /\ ka.pc[c] = "wait"
    /\ ka' = [ka EXCEPT !.pc[c] = "idle", !.stopped = TRUE]
    /\ UNCHANGED otherThanKeepAlive

\* Line 526: wg.Wait returns once the goroutine has run wg.Done
StopWait(c) ==
    /\ ka.pc[c] = "wait"
    /\ ka.g = "done"
    /\ ka' = [ka EXCEPT !.pc[c] = "idle", !.stopped = TRUE]
    /\ UNCHANGED otherThanKeepAlive

KeepAliveNext ==
    \/ KTick
    \/ KCancel
    \/ KSelect
    \/ KWrite
    \/ \E c \in Stoppers : StopCall(c)
    \/ \E c \in Stoppers : StopOnce(c)
    \/ \E c \in Stoppers : StopClose(c)
    \/ \E c \in Stoppers : StopWait(c)

SpecKeepAlive == KeepAliveInit /\ [][KeepAliveNext]_vars

\* C40: stop may be called again and again, by one caller or two at a time,
\* without closing the channel twice; once a call of stop has returned the
\* goroutine has ended, if there was one, and no blank line is written any more
C40_NoLineAfterStop ==
    /\ [](ka # <<>> => ~ka.panicked)
    /\ [](ka # <<>> /\ ka.stopped => ka.g \in {"done", "none"})
    /\ [][ka # <<>> /\ ka.stopped => ka'.lines = ka.lines]_vars

\* A blank line was written, both callers called stop twice and every call
\* returned, the context never cancelled: the goroutine ended on stopChan
C40_Witness ==
    /\ ka # <<>>
    /\ ka.started
    /\ ~ka.ctxDone
    /\ ka.lines >= 1
    /\ ka.stopped
    /\ \A c \in Stoppers : ka.made[c] = MaxStopCalls /\ ka.pc[c] = "idle"
    /\ ka.g = "done"

\* A blank line was written after stop had been called and before it returned
LineWhileStopping ==
    /\ ka # <<>>
    /\ ka.stopClosed
    /\ ka.g = "writing"
    /\ ~ka.stopped

====
